---- MODULE Spec2Model ----
(***************************************************************************)
(* RtlRichTextPrinter (src/src/rtl-support.ts) as a state machine.         *)
(*                                                                         *)
(* Text.  A text is a sequence of lexemes.  A lexeme is one character of   *)
(* the string, named by itself when it is ASCII ("a", "1", " ", "%") and   *)
(* by its code point otherwise ("U+0628" is the Persian letter beh,        *)
(* "U+06F1" the Persian digit one, "U+E000".."U+E009" the markers, "LF"    *)
(* the newline), or one whole tag ("<b>", "</ltr>", "<br/>").  No lexeme   *)
(* is a bare "<" or ">", so a tag never straddles two lexemes and the      *)
(* regular expressions of preprocessText act on lexeme boundaries.         *)
(*                                                                         *)
(* Lengths.  Horizontal lengths are integers in 1/Scale of a document      *)
(* unit, so that the per-gap division of renderJustifiedLine, the halving  *)
(* of renderRegularLine and the 0.3 overlap of renderWordWithState are     *)
(* exact.  Vertical lengths are in document units.                         *)
(***************************************************************************)
EXTENDS Integers, Sequences, FiniteSets

\* ------------------------------------------------------------------------
\* Bounds of the model
\* ------------------------------------------------------------------------
\* words in a text of the layout specification
MaxWords == 4

\* words in a text of the multi-call specification
MaxMachineWords == 2

\* print calls on one printer
MaxCalls == 2

\* pages one printer adds
MaxPages == 4

\* lexemes in a text of the markup specification
MaxMarkupLen == 5

\* longest text, in lexemes, of the tag specification
MaxTagLen == 4

\* lexemes in a text without tags
MaxPlainLen == 4

\* lexemes in a word handed to the segment parser
MaxPartLen == 4

\* words in a text handed to getTextWidth
MaxWidthWords == 3

\* words in a text of the decoration specification
MaxDecorWords == 4

\* lexemes in a word of the word specification
MaxWordLen == 3

\* lexemes in a text of the token specification
MaxTokenLen == 5

\* lexemes in a text of the paragraph specification
MaxParaLen == 5

\* ------------------------------------------------------------------------
\* Generic helpers
\* ------------------------------------------------------------------------
RECURSIVE SumSeq(_)
SumSeq(s) == IF s = <<>> THEN 0 ELSE Head(s) + SumSeq(Tail(s))

SeqsUpTo(S, n) == UNION {[1..k -> S] : k \in 0..n}

Range(s) == {s[i] : i \in DOMAIN s}

\* ------------------------------------------------------------------------
\* Lexeme classes
\* ------------------------------------------------------------------------
MARKERS ==
  [BOLD_START |-> "U+E000", BOLD_END |-> "U+E001",
   UNDERLINE_START |-> "U+E004", UNDERLINE_END |-> "U+E005",
   STRIKE_START |-> "U+E006", STRIKE_END |-> "U+E007",
   LTR_START |-> "U+E008", LTR_END |-> "U+E009"]

MarkerSet == {MARKERS[k] : k \in DOMAIN MARKERS}

SPACE_CHAR == " "

LatinLetters == {"a", "z"}

AsciiDigits == {"0", "1", "2", "3", "4", "5", "6", "7", "8", "9"}

PersianDigits == {"U+06F0", "U+06F1", "U+06F2", "U+06F3", "U+06F4",
                  "U+06F5", "U+06F6", "U+06F7", "U+06F8", "U+06F9"}

PersianLetters == {"U+0628", "U+0633"}

\* what String.prototype.trim and the regex class \s treat as white space
WhiteSpace == {" ", "LF", "TAB"}

\* the characters '.' of a regular expression does not match
LineTerminators == {"LF"}

\* the punctuation of ltrBlockRegex's second character class
LtrPunctuation == {".", ",", ":", ";", "?", "!", "'", "\"", "(", ")",
                   "[", "]", "{", "}", "&", "*", "-"}

\* <tag lexeme, lower-cased tag name>
OpenTags == {<<"<b>", "b">>, <<"<B>", "b">>, <<"<strong>", "strong">>,
             <<"<u>", "u">>, <<"<ins>", "ins">>,
             <<"<s>", "s">>, <<"<strike>", "strike">>, <<"<del>", "del">>,
             <<"<ltr>", "ltr">>, <<"<x>", "x">>}

CloseTags == {<<"</b>", "b">>, <<"</B>", "b">>, <<"</strong>", "strong">>,
              <<"</u>", "u">>, <<"</ins>", "ins">>,
              <<"</s>", "s">>, <<"</strike>", "strike">>, <<"</del>", "del">>,
              <<"</ltr>", "ltr">>, <<"</x>", "x">>}

BrTags == {"<br>", "<br/>", "<BR>", "<br />"}

TagLexemes == {t[1] : t \in OpenTags \cup CloseTags} \cup BrTags

\* the `styles` table of preprocessText, in its order
styles ==
  << [names |-> {"b", "strong"}, start |-> MARKERS.BOLD_START, end |-> MARKERS.BOLD_END],
     [names |-> {"u", "ins"}, start |-> MARKERS.UNDERLINE_START, end |-> MARKERS.UNDERLINE_END],
     [names |-> {"s", "strike", "del"}, start |-> MARKERS.STRIKE_START, end |-> MARKERS.STRIKE_END],
     [names |-> {"ltr"}, start |-> MARKERS.LTR_START, end |-> MARKERS.LTR_END] >>

\* ------------------------------------------------------------------------
\* preprocessText
\* ------------------------------------------------------------------------
\* processed.replace(/<br\s*\/?>/gi, '\n')
ReplaceBr(text) == [i \in DOMAIN text |-> IF text[i] \in BrTags THEN "LF" ELSE text[i]]

OpenName(c, style) ==
  IF \E t \in OpenTags : t[1] = c /\ t[2] \in style.names
  THEN (CHOOSE t \in OpenTags : t[1] = c /\ t[2] \in style.names)[2]
  ELSE "none"

\* the positions at which /<(name)>(.*?)<\/\1>/ started at i can end: a closing
\* tag of the same name with no line terminator in between
CloseCandidatesAnyName(text, i, name) ==
  {j \in (i + 1)..Len(text) :
      /\ \E t \in CloseTags : t[1] = text[j]
      /\ \A k \in (i + 1)..(j - 1) : text[k] \notin LineTerminators}

CloseCandidatesAcrossLines(text, i, name) ==
  {j \in (i + 1)..Len(text) : <<text[j], name>> \in CloseTags}

CloseCandidates(text, i, name) ==
  {j \in (i + 1)..Len(text) :
      /\ <<text[j], name>> \in CloseTags
      /\ \A k \in (i + 1)..(j - 1) : text[k] \notin LineTerminators}

Min(S) == CHOOSE m \in S : \A n \in S : m <= n

\* one processed.replace(style.regex, start + $2 + end): leftmost matches,
\* each with the nearest closing tag, scanning on after the match
RECURSIVE ReplaceStyleFrom(_, _, _)
ReplaceStyleFrom(text, i, style) ==
  IF i > Len(text) THEN <<>>
  ELSE LET name == OpenName(text[i], style)
           cands == IF name = "none" THEN {} ELSE CloseCandidates(text, i, name)
       IN IF cands = {}
          THEN <<text[i]>> \o ReplaceStyleFrom(text, i + 1, style)
          ELSE LET j == Min(cands)
               IN <<style.start>> \o SubSeq(text, i + 1, j - 1) \o <<style.end>>
                    \o ReplaceStyleFrom(text, j + 1, style)

\* while (processed !== previous) { previous = processed; processed = replace }
RECURSIVE ReplaceStyleFix(_, _)
ReplaceStyleFix(text, style) ==
  LET r == ReplaceStyleFrom(text, 1, style)
  IN IF r = text THEN text ELSE ReplaceStyleFix(r, style)

ReplaceStyles(text) ==
  ReplaceStyleFix(ReplaceStyleFix(ReplaceStyleFix(ReplaceStyleFix(text,
     styles[1]), styles[2]), styles[3]), styles[4])

\* [A-Za-z0-9\s.,:;?!'"()\[\]{}&*-]
LtrBlockTail == LatinLetters \cup AsciiDigits \cup WhiteSpace \cup LtrPunctuation

RECURSIVE LtrBlockEnd(_, _)
LtrBlockEnd(text, j) ==
  IF j < Len(text) /\ text[j + 1] \in LtrBlockTail THEN LtrBlockEnd(text, j + 1) ELSE j

\* the replace callback of ltrBlockRegex
WrapMatch(match) ==
  IF MARKERS.LTR_START \in Range(match) \/ MARKERS.LTR_END \in Range(match)
  THEN match
  ELSE <<MARKERS.LTR_START>> \o match \o <<MARKERS.LTR_END>>

\* processed.replace(ltrBlockRegex, ...).  The letters of a tag that is still
\* in the text are wrapped inside its angle brackets ("<" is not in the
\* class, so no run enters or leaves a tag) and go with the tag in the next
\* step; a tag lexeme is therefore passed through here.
RECURSIVE WrapLtrFrom(_, _)
WrapLtrFrom(text, i) ==
  IF i > Len(text) THEN <<>>
  ELSE IF text[i] \in LatinLetters
       THEN LET j == LtrBlockEnd(text, i)
            IN WrapMatch(SubSeq(text, i, j)) \o WrapLtrFrom(text, j + 1)
       ELSE <<text[i]>> \o WrapLtrFrom(text, i + 1)

\* the lexemes in which a ">" occurs: the bare character and, at its end,
\* every tag
ClosesTag(c) == c = ">" \/ c \in TagLexemes

\* processed.replace(/<[^>]+>/g, ''): a match starts at a "<", bare or the
\* first character of a tag, and runs to the first ">" after it, with at
\* least one character in between
RECURSIVE RemoveTagsFrom(_, _)
RemoveTagsFrom(text, i) ==
  IF i > Len(text) THEN <<>>
  ELSE IF text[i] \in TagLexemes THEN RemoveTagsFrom(text, i + 1)
  ELSE IF text[i] = "<" /\ \E j \in (i + 1)..Len(text) : ClosesTag(text[j])
       THEN LET j == Min({k \in (i + 1)..Len(text) : ClosesTag(text[k])})
            IN IF j = i + 1 /\ text[j] = ">"
               THEN <<text[i]>> \o RemoveTagsFrom(text, i + 1)
               ELSE RemoveTagsFrom(text, j + 1)
       ELSE <<text[i]>> \o RemoveTagsFrom(text, i + 1)

RemoveTags(text) == RemoveTagsFrom(text, 1)

\* the three chained replaces that exchange "(" and ")"
SwapParens(text) ==
  [i \in DOMAIN text |-> IF text[i] = "(" THEN ")"
                         ELSE IF text[i] = ")" THEN "(" ELSE text[i]]

preprocessText(text) ==
  SwapParens(RemoveTags(WrapLtrFrom(ReplaceStyles(ReplaceBr(text)), 1)))

\* String.prototype.split on one separator lexeme
RECURSIVE SplitOn(_, _)
SplitOn(text, sep) ==
  IF \A i \in DOMAIN text : text[i] # sep THEN <<text>>
  ELSE LET p == Min({i \in DOMAIN text : text[i] = sep})
       IN <<SubSeq(text, 1, p - 1)>> \o SplitOn(SubSeq(text, p + 1, Len(text)), sep)

\* !paragraph.trim()
IsBlank(paragraph) == \A i \in DOMAIN paragraph : paragraph[i] \in WhiteSpace

tokenizeKeepEmpty(text) == SplitOn(text, SPACE_CHAR)

tokenize(text) == SelectSeq(SplitOn(text, SPACE_CHAR), LAMBDA w : w # <<>>)

\* ------------------------------------------------------------------------
\* parseSegmentsWithState, toPersianDigits
\* ------------------------------------------------------------------------
NoStyle == [isBold |-> FALSE, isUnderline |-> FALSE, isStrike |-> FALSE, isLtr |-> FALSE]

\* the switch of parseSegmentsWithState on one marker
FoldMarkerKeepUnderline(state, part) ==
  IF part = MARKERS.BOLD_START THEN [state EXCEPT !.isBold = TRUE]
  ELSE IF part = MARKERS.BOLD_END THEN [state EXCEPT !.isBold = FALSE]
  ELSE IF part = MARKERS.UNDERLINE_START THEN [state EXCEPT !.isUnderline = TRUE]
  ELSE IF part = MARKERS.STRIKE_START THEN [state EXCEPT !.isStrike = TRUE]
  ELSE IF part = MARKERS.STRIKE_END THEN [state EXCEPT !.isStrike = FALSE]
  ELSE IF part = MARKERS.LTR_START THEN [state EXCEPT !.isLtr = TRUE]
  ELSE IF part = MARKERS.LTR_END THEN [state EXCEPT !.isLtr = FALSE]
  ELSE state

FoldMarker(state, part) ==
  IF part = MARKERS.BOLD_START THEN [state EXCEPT !.isBold = TRUE]
  ELSE IF part = MARKERS.BOLD_END THEN [state EXCEPT !.isBold = FALSE]
  ELSE IF part = MARKERS.UNDERLINE_START THEN [state EXCEPT !.isUnderline = TRUE]
  ELSE IF part = MARKERS.UNDERLINE_END THEN [state EXCEPT !.isUnderline = FALSE]
  ELSE IF part = MARKERS.STRIKE_START THEN [state EXCEPT !.isStrike = TRUE]
  ELSE IF part = MARKERS.STRIKE_END THEN [state EXCEPT !.isStrike = FALSE]
  ELSE IF part = MARKERS.LTR_START THEN [state EXCEPT !.isLtr = TRUE]
  ELSE IF part = MARKERS.LTR_END THEN [state EXCEPT !.isLtr = FALSE]
  ELSE state

RECURSIVE LiteralEnd(_, _)
LiteralEnd(word, j) ==
  IF j < Len(word) /\ word[j + 1] \notin MarkerSet THEN LiteralEnd(word, j + 1) ELSE j

\* word.split(regex) and the loop over the parts, from position i on
RECURSIVE ParseFrom(_, _, _, _)
ParseFrom(word, i, state, segments) ==
  IF i > Len(word) THEN [segments |-> segments, state |-> state]
  ELSE IF word[i] \in MarkerSet
       THEN ParseFrom(word, i + 1, FoldMarker(state, word[i]), segments)
       ELSE LET j == LiteralEnd(word, i)
            IN ParseFrom(word, j + 1, state,
                 Append(segments,
                   [text |-> SubSeq(word, i, j), isBold |-> state.isBold,
                    isUnderline |-> state.isUnderline, isStrike |-> state.isStrike,
                    isLtr |-> state.isLtr]))

parseSegmentsWithState(word, state) == ParseFrom(word, 1, state, <<>>)

\* text.replace(regex of all markers, 'g', '')
stripMarkersKeepLtr(text) ==
  SelectSeq(text, LAMBDA c : c \notin MarkerSet \ {MARKERS.LTR_START, MARKERS.LTR_END})

stripMarkers(text) == SelectSeq(text, LAMBDA c : c \notin MarkerSet)

persianDigits ==
  [d \in AsciiDigits |->
     CASE d = "0" -> "U+06F0" [] d = "1" -> "U+06F1" [] d = "2" -> "U+06F2"
       [] d = "3" -> "U+06F3" [] d = "4" -> "U+06F4" [] d = "5" -> "U+06F5"
       [] d = "6" -> "U+06F6" [] d = "7" -> "U+06F7" [] d = "8" -> "U+06F8"
       [] d = "9" -> "U+06F9"]

toPersianDigits(text) ==
  [i \in DOMAIN text |-> IF text[i] \in AsciiDigits THEN persianDigits[text[i]] ELSE text[i]]

\* ------------------------------------------------------------------------
\* State
\* ------------------------------------------------------------------------
VARIABLES
  config,       \* the readonly fields the constructor sets
  pageCounter,  \* this.pageCounter
  doc,          \* the drawing surface: current font, font size, pages added
  out,          \* what the last operation returned, painted and measured
  cbLog,        \* the page numbers onPageBreak has been called with
  calls         \* number of print / getTextWidth calls made

vars == <<config, pageCounter, doc, out, cbLog, calls>>

\* sub-units per document unit on the horizontal axis: divisible by every gap
\* count of a line and by 2, and 3/10 of it is an integer
Scale == 2 * 2 * 2 * 3 * 5 * 5

\* const overlap = 0.3
overlap == (3 * Scale) \div 10

\* ------------------------------------------------------------------------
\* The drawing surface (jsPDF) as the printer uses it
\* ------------------------------------------------------------------------
\* advance of one character in the registered font's normal weight, in
\* tenths of the font size
CharUnits(c) ==
  IF c = " " THEN 2
  ELSE IF c \in PersianDigits THEN 5
  ELSE IF c = "U+0633" THEN 6
  ELSE IF c \in LtrPunctuation \cup {"%"} THEN 2
  ELSE 4

\* the bold face is wider, a font other than the registered one narrower
FontUnits(c, font) ==
  IF font.fontName # "Vazir" THEN CharUnits(c) - 1
  ELSE IF font.fontStyle = "bold" THEN CharUnits(c) + 1
  ELSE CharUnits(c)

\* doc.getTextWidth(text) under the given font and size
DocTextWidth(text, font, fontSize) ==
  (Scale * fontSize * SumSeq([i \in DOMAIN text |-> FontUnits(text[i], font)])) \div 10

\* /[؀-ۿ]/.test(text)
hasPersianChar(text) == \E i \in DOMAIN text : text[i] \in PersianLetters \cup PersianDigits

\* ------------------------------------------------------------------------
\* getWordWidthWithState
\* ------------------------------------------------------------------------
\* the string whose width is taken for one segment
textForMeasureRaw(segment) == segment.text

textForMeasure(segment) ==
  IF config.convertDigitsToPersian /\ ~segment.isLtr
  THEN toPersianDigits(segment.text) ELSE segment.text

SegmentFont(segment) ==
  [fontName |-> config.fontName, fontStyle |-> IF segment.isBold THEN "bold" ELSE "normal"]

\* the caller's style object after a call whose parser left the object it
\* worked on at `after': handed over as it is, the caller's object is that
\* object; handed over as { ...state }, it keeps its fields
SameObject(state, after) == after

Spread(state, after) == state

\* m is the surface during the call; the result carries the font the surface
\* is left with, the (string, font) pairs that were measured and the caller's
\* style object as the call leaves it
getWordWidthWithState(word, state, m) ==
  LET currentFont == m.font
      query(segment) == [text |-> textForMeasure(segment), font |-> SegmentFont(segment)]
      measure(q) == DocTextWidth(q.text, q.font, m.fontSize)
      total(r, queries) ==
        [width |-> SumSeq([i \in DOMAIN queries |-> measure(queries[i])]),
         state |-> r.state,
         font |-> currentFont,
         queries |-> queries,
         arg |-> Spread(state, r.state)]
      loop(r) == total(r, [i \in DOMAIN r.segments |-> query(r.segments[i])])
  IN loop(parseSegmentsWithState(word, state))

\* ------------------------------------------------------------------------
\* renderWordWithState
\* ------------------------------------------------------------------------
\* the string handed to doc.text for one segment
printableTextRaw(segment) == segment.text

printableText(segment) ==
  IF config.convertDigitsToPersian /\ ~segment.isLtr
  THEN toPersianDigits(segment.text) ELSE segment.text

HasDecoration(segment) == segment.isUnderline \/ segment.isStrike

\* y + (fontSize * this.underlineOffsetRatio) and y - (fontSize *
\* this.strikeOffsetRatio), in 1/Scale units like the horizontal lengths; y is
\* the baseline in whole units, the ratios are held in 1/Scale
underlineY(y, fontSize) == y * Scale + fontSize * config.underlineOffsetRatio

strikeY(y, fontSize) == y * Scale - fontSize * config.strikeOffsetRatio

\* the y both ends of a doc.line call are given; kind, at and line only label
\* the call in the log
DecorationY(kind, y, fontSize) ==
  IF kind = "underline" THEN underlineY(y, fontSize) ELSE strikeY(y, fontSize)

\* the doc.line calls for segment i of the word, whose right edge is at currentX
SegmentDecoration(segments, i, currentX, segmentWidth, y, fontSize, lineNo) ==
  LET segment == segments[i]
      rightX == IF i > 1 /\ HasDecoration(segments[i - 1])
                THEN currentX + overlap ELSE currentX
      leftX == IF i < Len(segments) /\ HasDecoration(segments[i + 1])
               THEN currentX - segmentWidth - overlap ELSE currentX - segmentWidth
      line(kind) == [kind |-> kind, x1 |-> rightX, x2 |-> leftX,
                     y |-> DecorationY(kind, y, fontSize), at |-> "segment",
                     line |-> lineNo]
  IN (IF segment.isUnderline THEN <<line("underline")>> ELSE <<>>)
       \o (IF segment.isStrike THEN <<line("strike")>> ELSE <<>>)

\* the loop over the segments, from segment i on; m is the surface
RECURSIVE RenderSegmentsFrom(_, _, _, _, _)
RenderSegmentsFrom(segments, i, currentX, y, m) ==
  IF i > Len(segments) THEN [x |-> currentX, m |-> m]
  ELSE LET segment == segments[i]
           isRtlOutput == ~segment.isLtr /\ hasPersianChar(segment.text)
           currentFont == m.font
           font == SegmentFont(segment)
           text == printableText(segment)
           segmentWidth == DocTextWidth(text, font, m.fontSize)
           paint == [text |-> text, x |-> currentX, y |-> y, isOutputRtl |-> isRtlOutput,
                     font |-> font, width |-> segmentWidth, segment |-> segment,
                     line |-> Len(m.rendered) + 1]
       IN RenderSegmentsFrom(segments, i + 1, currentX - segmentWidth, y,
            [m EXCEPT !.painted = Append(@, paint),
                      !.drawn = @ \o SegmentDecoration(segments, i, currentX, segmentWidth, y,
                                                       m.fontSize, Len(m.rendered) + 1),
                      !.font = currentFont])

renderWordWithState(word, x, y, state, m) ==
  LET done(r, p) ==
        [x |-> p.x, state |-> r.state,
         m |-> [p.m EXCEPT !.font = [fontName |-> config.fontName, fontStyle |-> "normal"]]]
      loop(r) == done(r, RenderSegmentsFrom(r.segments, 1, x, y, m))
  IN loop(parseSegmentsWithState(word, state))

\* ------------------------------------------------------------------------
\* renderRegularLine, renderJustifiedLine, renderLine
\* ------------------------------------------------------------------------
\* words.reduce((sum, w) => sum + width of w, 0), the style threaded from s
RECURSIVE WordsWidthFrom(_, _, _, _)
WordsWidthFrom(words, i, s, m) ==
  IF i > Len(words) THEN 0
  ELSE LET add(r) == r.width + WordsWidthFrom(words, i + 1, r.state, m)
       IN add(getWordWidthWithState(words[i], s, m))

\* the doc.line calls across the gap after a word, the gap's right edge at currentX
GapDecorationUnderlineOnly(state, currentX, gapWidth, y, fontSize, lineNo) ==
  LET line(kind) == [kind |-> kind, x1 |-> currentX, x2 |-> currentX - gapWidth,
                     y |-> DecorationY(kind, y, fontSize), at |-> "gap", line |-> lineNo]
  IN IF state.isUnderline THEN <<line("underline")>> ELSE <<>>

GapDecoration(state, currentX, gapWidth, y, fontSize, lineNo) ==
  LET line(kind) == [kind |-> kind, x1 |-> currentX, x2 |-> currentX - gapWidth,
                     y |-> DecorationY(kind, y, fontSize), at |-> "gap", line |-> lineNo]
  IN (IF state.isUnderline THEN <<line("underline")>> ELSE <<>>)
       \o (IF state.isStrike THEN <<line("strike")>> ELSE <<>>)

\* the loop that paints the words of a line from word i on, with gaps of
\* gapWidth; boxes collects each word's right and left edge
RECURSIVE RenderWordsFrom(_, _, _, _, _, _, _, _)
RenderWordsFrom(words, i, currentX, y, state, gapWidth, boxes, m) ==
  IF i > Len(words) THEN [m |-> m, boxes |-> boxes]
  ELSE LET box(r) == [right |-> currentX, left |-> r.x]
           next(r) ==
             IF i < Len(words)
             THEN RenderWordsFrom(words, i + 1, r.x - gapWidth, y, r.state, gapWidth,
                    Append(boxes, box(r)),
                    [r.m EXCEPT !.drawn = @ \o GapDecoration(r.state, r.x, gapWidth, y,
                                                             m.fontSize,
                                                             Len(m.rendered) + 1)])
             ELSE [m |-> r.m, boxes |-> Append(boxes, box(r))]
       IN next(renderWordWithState(words[i], currentX, y, state, m))

\* the shift of the starting point of a regular line
alignmentOffsetHalved(remainingWidth) ==
  IF config.align = "right" THEN 0 ELSE remainingWidth \div 2

alignmentOffset(remainingWidth) ==
  IF config.align = "right" THEN 0
  ELSE IF config.align = "left" THEN remainingWidth
  ELSE IF config.align = "center" THEN remainingWidth \div 2
  ELSE 0

renderRegularLine(words, startX, y, initialState, m) ==
  LET spaceWidth == DocTextWidth(<<SPACE_CHAR>>, m.font, m.fontSize)
      lineLength(wordsWidth) == wordsWidth + (Len(words) - 1) * spaceWidth
      done(r) ==
        [r.m EXCEPT !.rendered = Append(@,
           [words |-> words, y |-> y, strategy |-> "regular", startX |-> startX,
            initialState |-> initialState, spaceWidth |-> spaceWidth,
            gapWidth |-> spaceWidth, boxes |-> r.boxes, checksDone |-> Len(m.checks),
            fontSize |-> m.fontSize])]
      loop(wordsWidth) ==
        done(RenderWordsFrom(words, 1,
               startX - alignmentOffset(config.maxWidth - lineLength(wordsWidth)),
               y, initialState, spaceWidth, <<>>, m))
  IN loop(WordsWidthFrom(words, 1, initialState, m))

extraSpacePerGapNoSpaces(totalWordsWidth, spaceWidth, spacesCount) ==
  (config.maxWidth - totalWordsWidth) \div spacesCount

extraSpacePerGapTwoSpaces(totalWordsWidth, spaceWidth, spacesCount) ==
  (config.maxWidth - totalWordsWidth - 2 * spaceWidth * spacesCount) \div spacesCount

extraSpacePerGap(totalWordsWidth, spaceWidth, spacesCount) ==
  (config.maxWidth - totalWordsWidth - spaceWidth * spacesCount) \div spacesCount

renderJustifiedLine(words, startX, y, initialState, m) ==
  LET spacesCount == Len(words) - 1
      spaceWidth == DocTextWidth(<<SPACE_CHAR>>, m.font, m.fontSize)
      done(gapWidth, r) ==
        [r.m EXCEPT !.rendered = Append(@,
           [words |-> words, y |-> y, strategy |-> "justified", startX |-> startX,
            initialState |-> initialState, spaceWidth |-> spaceWidth,
            gapWidth |-> gapWidth, boxes |-> r.boxes, checksDone |-> Len(m.checks),
            fontSize |-> m.fontSize])]
      loop(gapWidth) ==
        done(gapWidth, RenderWordsFrom(words, 1, startX, y, initialState, gapWidth, <<>>, m))
      spread(totalWordsWidth) ==
        loop(spaceWidth + extraSpacePerGap(totalWordsWidth, spaceWidth, spacesCount))
  IN IF spacesCount <= 0 THEN renderRegularLine(words, startX, y, initialState, m)
     ELSE spread(WordsWidthFrom(words, 1, initialState, m))

renderLineAnyAlign(words, startX, y, shouldJustify, initialState, m) ==
  IF shouldJustify
  THEN renderJustifiedLine(words, startX, y, initialState, m)
  ELSE renderRegularLine(words, startX, y, initialState, m)

renderLine(words, startX, y, shouldJustify, initialState, m) ==
  IF shouldJustify /\ config.align = "right"
  THEN renderJustifiedLine(words, startX, y, initialState, m)
  ELSE renderRegularLine(words, startX, y, initialState, m)

\* ------------------------------------------------------------------------
\* checkPageBreak
\* ------------------------------------------------------------------------
\* an optional value: <<>> when undefined, <<v>> when given; `opt ?? default`
Nullish(opt, default) == IF opt = <<>> THEN default ELSE opt[1]

\* the callbacks a caller may configure.  "example" is the one of the test
\* render script: it paints its header in bold 12 and resumes below it;
\* "byPage" leaves the surface alone and resumes at a baseline that depends
\* on the page number it is given.
Callbacks == {"example", "byPage"}

onPageBreak(cb, pageNumber, m) ==
  IF cb = "example"
  THEN [y |-> config.marginTop + config.headerHeight,
        m |-> [m EXCEPT !.font = [fontName |-> "Vazir", fontStyle |-> "bold"],
                        !.fontSize = 12]]
  ELSE [y |-> 2 * pageNumber, m |-> m]

\* y + this.lineHeight + 2 > threshold
NeedsPageBreakInclusive(y) ==
  y + config.lineHeight + 2 >= config.pageHeight - config.footerHeight - config.marginBottom

NeedsPageBreak(y) ==
  y + config.lineHeight + 2 > config.pageHeight - config.footerHeight - config.marginBottom

\* this.doc.addPage(); this.pageCounter++
AddPageOnly(m) == [m EXCEPT !.pages = @ + 1]

AddPage(m) == [m EXCEPT !.pages = @ + 1, !.pageCounter = @ + 1]

checkPageBreak(y, m) ==
  IF NeedsPageBreak(y)
  THEN LET m1 == AddPage(m)
       IN IF config.onPageBreak # <<>>
          THEN LET r == onPageBreak(config.onPageBreak[1], m1.pageCounter, m1)
               IN [y |-> r.y,
                   m |-> [r.m EXCEPT !.cbArgs = Append(@, [pageNumber |-> m1.pageCounter, ret |-> r.y]),
                                     !.checks = Append(@, [y |-> y, added |-> TRUE, ret |-> r.y])]]
          ELSE [y |-> config.marginTop + config.headerHeight,
                m |-> [m1 EXCEPT !.checks = Append(@,
                         [y |-> y, added |-> TRUE,
                          ret |-> config.marginTop + config.headerHeight])]]
  ELSE [y |-> y, m |-> [m EXCEPT !.checks = Append(@, [y |-> y, added |-> FALSE, ret |-> y])]]

\* ------------------------------------------------------------------------
\* renderWords
\* ------------------------------------------------------------------------
\* y = checkPageBreak(y); renderLine(...); y += lineHeight
FlushLineAtOldY(lineWords, startX, y, shouldJustify, lineStartingState, m) ==
  LET line(c) ==
        [y |-> c.y + config.lineHeight,
         m |-> renderLine(lineWords, startX, y, shouldJustify, lineStartingState, c.m)]
  IN line(checkPageBreak(y, m))

FlushLine(lineWords, startX, y, shouldJustify, lineStartingState, m) ==
  LET line(c) ==
        [y |-> c.y + config.lineHeight,
         m |-> renderLine(lineWords, startX, c.y, shouldJustify, lineStartingState, c.m)]
  IN line(checkPageBreak(y, m))

\* lineWidth + wordWidth + spaceToUse > this.maxWidth
OverflowsNoSpace(lineWidth, wordWidth, spaceToUse) ==
  lineWidth + wordWidth > config.maxWidth

OverflowsAtEqual(lineWidth, wordWidth, spaceToUse) ==
  lineWidth + wordWidth + spaceToUse >= config.maxWidth

Overflows(lineWidth, wordWidth, spaceToUse) ==
  lineWidth + wordWidth + spaceToUse > config.maxWidth

\* lineStartingState = { ...state }, taken before state = nextState
LineStartAfterWord(state, nextState) == nextState

LineStart(state, nextState) == state

\* the wrap pass's own account of a line it hands over: its words, the
\* widths it measured for them and the space width it used
Handed(m, lineWords, widths, spaceWidth) ==
  [m EXCEPT !.handed = Append(@, [words |-> lineWords, widths |-> widths,
                                  spaceWidth |-> spaceWidth])]

\* the for loop over the words, from word i on; a holds the loop's variables
RECURSIVE WrapFrom(_, _, _, _, _, _)
WrapFrom(words, i, startX, justify, spaceWidth, a) ==
  IF i > Len(words) THEN a
  ELSE LET word == words[i]
           spaceToUse == IF Len(a.lineWords) > 0 THEN spaceWidth ELSE 0
           m1(r) == [a.m EXCEPT !.font = r.font, !.measured = @ \o r.queries]
           newLine(r, f) ==
             [y |-> f.y, lineWords |-> <<word>>, lineWidth |-> r.width,
              widths |-> <<r.width>>,
              lineStartingState |-> LineStart(a.state, r.state),
              state |-> r.state, m |-> f.m]
           sameLine(r) ==
             [a EXCEPT !.lineWords = Append(@, word),
                       !.lineWidth = @ + r.width + spaceToUse,
                       !.widths = Append(@, r.width),
                       !.state = r.state, !.m = m1(r)]
           step(r) ==
             IF Overflows(a.lineWidth, r.width, spaceToUse)
             THEN newLine(r, FlushLine(a.lineWords, startX, a.y,
                               justify /\ Len(a.lineWords) > 1, a.lineStartingState,
                               Handed(m1(r), a.lineWords, a.widths, spaceWidth)))
             ELSE sameLine(r)
       IN WrapFrom(words, i + 1, startX, justify, spaceWidth,
                   step(getWordWidthWithState(word, a.state, a.m)))

renderWords(words, startX, startY, justify, m) ==
  LET spaceWidth == DocTextWidth(<<SPACE_CHAR>>, m.font, m.fontSize)
      last(a) ==
        IF Len(a.lineWords) > 0
        THEN FlushLine(a.lineWords, startX, a.y, FALSE, a.lineStartingState,
                       Handed(a.m, a.lineWords, a.widths, spaceWidth))
        ELSE [y |-> a.y, m |-> a.m]
  IN last(WrapFrom(words, 1, startX, justify, spaceWidth,
            [y |-> startY, lineWords |-> <<>>, lineWidth |-> 0, widths |-> <<>>,
             lineStartingState |-> NoStyle, state |-> NoStyle, m |-> m]))

\* ------------------------------------------------------------------------
\* print, getTextWidth
\* ------------------------------------------------------------------------
\* what can be observed of the surface and the printer at baseline y
Snapshot(y, m) ==
  [y |-> y, lines |-> Len(m.rendered), paints |-> Len(m.painted), drawn |-> Len(m.drawn),
   pages |-> m.pages, pageCounter |-> m.pageCounter, callbacks |-> Len(m.cbArgs),
   font |-> m.font, fontSize |-> m.fontSize]

\* if (!paragraph.trim()) { currentY += this.lineHeight; continue; }
SkipBlankWithCheck(currentY, m) ==
  LET line(c) == [y |-> c.y + config.lineHeight, m |-> c.m]
  IN line(checkPageBreak(currentY, m))

SkipBlank(currentY, m) ==
  [y |-> currentY + config.lineHeight, m |-> m]

\* the loop over the paragraphs, from paragraph i on.  m.paragraphs notes, for
\* each paragraph, which of the lines in m.rendered and of the paint calls in
\* m.painted it produced, and the snapshots before and after it.
RECURSIVE PrintFrom(_, _, _, _, _, _)
PrintFrom(paragraphs, i, startX, currentY, shouldJustify, m) ==
  IF i > Len(paragraphs) THEN [y |-> currentY, m |-> m]
  ELSE LET paragraph == paragraphs[i]
           noted(r) ==
             [y |-> r.y,
              m |-> [r.m EXCEPT !.paragraphs = Append(@,
                       [text |-> paragraph, blank |-> IsBlank(paragraph),
                        firstLine |-> Len(m.rendered) + 1, lastLine |-> Len(r.m.rendered),
                        firstPaint |-> Len(m.painted) + 1, lastPaint |-> Len(r.m.painted),
                        from |-> Snapshot(currentY, m), to |-> Snapshot(r.y, r.m)])]]
           next(r) == PrintFrom(paragraphs, i + 1, startX, r.y, shouldJustify, r.m)
       IN next(noted(IF IsBlank(paragraph) THEN SkipBlank(currentY, m)
                     ELSE renderWords(tokenize(paragraph), startX, currentY,
                                      shouldJustify, m)))

print(text, options, m) ==
  LET startX == Nullish(options.startX, config.defaultStartX)
      shouldJustify == Nullish(options.justify, config.justify)
      loop(processedText) ==
        PrintFrom(SplitOn(processedText, "LF"), 1, startX, options.startY, shouldJustify,
                  [m EXCEPT !.processed = processedText])
  IN loop(preprocessText(text))

\* if (i < words.length - 1) width += spaceWidth, for word i of n
GapAfterNone(i, n, spaceWidth) == 0

GapAfter(i, n, spaceWidth) == IF i < n THEN spaceWidth ELSE 0

\* the inner loop of getTextWidth over the words of one paragraph, from word
\* i on; a holds the running width and the surface
RECURSIVE ParagraphWidthFrom(_, _, _, _, _)
ParagraphWidthFrom(words, i, state, spaceWidth, a) ==
  IF i > Len(words) THEN a
  ELSE LET add(r) ==
             ParagraphWidthFrom(words, i + 1, r.state, spaceWidth,
               [width |-> a.width + r.width + GapAfter(i, Len(words), spaceWidth),
                m |-> [a.m EXCEPT !.font = r.font, !.measured = @ \o r.queries]])
       IN add(getWordWidthWithState(words[i], state, a.m))

\* if (width > maxWidth) maxWidth = width
TakeLatest(a, b) == b

Max2(a, b) == IF b > a THEN b ELSE a

\* the outer loop of getTextWidth over the paragraphs, from paragraph i on
RECURSIVE MaxParagraphWidth(_, _, _, _)
MaxParagraphWidth(paragraphs, i, spaceWidth, a) ==
  IF i > Len(paragraphs) THEN a
  ELSE IF IsBlank(paragraphs[i]) THEN MaxParagraphWidth(paragraphs, i + 1, spaceWidth, a)
  ELSE LET next(p) ==
             MaxParagraphWidth(paragraphs, i + 1, spaceWidth,
               [maxWidth |-> Max2(a.maxWidth, p.width), m |-> p.m])
       IN next(ParagraphWidthFrom(tokenize(paragraphs[i]), 1, NoStyle, spaceWidth,
                                  [width |-> 0, m |-> a.m]))

getTextWidth(text, m) ==
  LET loop(processed) ==
        MaxParagraphWidth(SplitOn(processed, "LF"), 1,
                          DocTextWidth(<<SPACE_CHAR>>, m.font, m.fontSize),
                          [maxWidth |-> 0, m |-> [m EXCEPT !.processed = processed]])
  IN loop(preprocessText(text))

\* ------------------------------------------------------------------------
\* constructor
\* ------------------------------------------------------------------------
\* the page size of the document the printer is bound to
PageSize == [width |-> 40, height |-> 40]

constructor(c) ==
  [maxWidth |-> (c.maxWidth - 5) * Scale,
   lineHeight |-> c.lineHeight,
   defaultStartX |-> Nullish(c.defaultStartX, (PageSize.width - 10) * Scale),
   align |-> Nullish(c.align, "right"),
   justify |-> Nullish(c.justify, TRUE),
   marginTop |-> Nullish(c.marginTop, 10),
   marginBottom |-> Nullish(c.marginBottom, 10),
   footerHeight |-> Nullish(c.footerHeight, 0),
   headerHeight |-> Nullish(c.headerHeight, 0),
   pageHeight |-> PageSize.height,
   onPageBreak |-> c.onPageBreak,
   fontName |-> c.fontName,
   convertDigitsToPersian |-> Nullish(c.convertDigitsToPersian, TRUE),
   underlineOffsetRatio |-> Nullish(c.underlineOffsetRatio, (18 * Scale) \div 100),
   strikeOffsetRatio |-> Nullish(c.strikeOffsetRatio, Scale \div 10)]

\* ------------------------------------------------------------------------
\* Inputs
\* ------------------------------------------------------------------------
Opt(S) == {<<>>} \cup {<<v>> : v \in S}

BaseConfig ==
  [maxWidth |-> 15, lineHeight |-> 8, defaultStartX |-> <<>>, align |-> <<>>,
   justify |-> <<>>, marginTop |-> <<>>, marginBottom |-> <<>>, footerHeight |-> <<>>,
   headerHeight |-> <<>>, onPageBreak |-> <<>>, fontName |-> "Vazir",
   convertDigitsToPersian |-> <<>>, underlineOffsetRatio |-> <<>>,
   strikeOffsetRatio |-> <<>>]

\* constructor arguments of the layout specification
LayoutConfigs ==
  {[BaseConfig EXCEPT !.maxWidth = w, !.justify = j] : w \in {15, 23}, j \in Opt({FALSE})}
  \cup {[BaseConfig EXCEPT !.maxWidth = w, !.align = <<a>>] :
          w \in {15, 23}, a \in {"left", "center"}}
  \cup {[BaseConfig EXCEPT !.onPageBreak = <<cb>>, !.convertDigitsToPersian = <<FALSE>>,
                           !.defaultStartX = <<25 * Scale>>] :
          cb \in Callbacks}

\* constructor arguments of the multi-call specification
MachineConfigs ==
  {[BaseConfig EXCEPT !.onPageBreak = cb, !.footerHeight = f] :
      cb \in Opt(Callbacks), f \in Opt({2})}

\* the texts of at most n words of V, separated by a space or a newline
RECURSIVE TextsOf(_, _)
TextsOf(V, n) ==
  IF n = 0 THEN {<<>>}
  ELSE LET shorter == TextsOf(V, n - 1)
       IN shorter \cup V
            \cup {t \o s \o w : t \in shorter \ {<<>>}, s \in {<<" ">>, <<"LF">>}, w \in V}

Vocabulary ==
  { <<"U+0628">>, <<"U+0633", "U+0633", "U+0633">>, <<"<b>", "U+0628">>,
    <<"U+0628", "1", "</b>">> }

LayoutTexts == TextsOf(Vocabulary, MaxWords)

MachineVocabulary == { <<"U+0628">>, <<"U+0633", "U+0633", "U+0633">> }

MachineTexts == TextsOf(MachineVocabulary, MaxMachineWords)

MarkupAlphabet == {"<ltr>", "</ltr>", "a", "1", "%", " ", "LF"}

MarkupTexts == SeqsUpTo(MarkupAlphabet, MaxMarkupLen)

\* style tags, matched, mismatched and unknown, stray angle brackets, a
\* Persian and a Latin letter, a newline
TagAlphabet ==
  {"<b>", "</b>", "</strong>", "<u>", "</u>", "<x>", "<", ">", "U+0628", "a", "LF"}

TagTexts == SeqsUpTo(TagAlphabet, MaxTagLen)

\* constructor arguments whose resumption baseline fails the page-fit test:
\* a header as tall as half the page, with and without the callback that
\* resumes below it
MisconfiguredConfigs ==
  {[BaseConfig EXCEPT !.headerHeight = <<15>>, !.onPageBreak = cb] : cb \in Opt({"example"})}

\* words that open and close an underline and a strike scope
DecorVocabulary ==
  { <<"U+0628">>, <<"<u>", "U+0628">>, <<"U+0628", "</u>">>,
    <<"<s>", "U+0628">>, <<"U+0628", "</s>">> }

DecorTexts == TextsOf(DecorVocabulary, MaxDecorWords)

\* right aligned (justified by default) and centred, narrow and wide
DecorConfigs ==
  {[BaseConfig EXCEPT !.maxWidth = w, !.align = a] : w \in {15, 23}, a \in Opt({"center"})}
  \cup {[BaseConfig EXCEPT !.maxWidth = 23,
                           !.underlineOffsetRatio = <<(3 * Scale) \div 10>>]}

\* the texts measured: up to MaxWidthWords words, and blank texts
WidthTexts == TextsOf(Vocabulary, MaxWidthWords) \cup {<<" ">>, <<"LF">>, <<" ", "LF", " ">>}

\* texts without tags: letters, a digit, punctuation, both parentheses, a
\* space, a newline and one marker code point
PlainAlphabet == {"a", "U+0628", "1", ".", "(", ")", " ", "LF", "U+E000"}

PlainTexts == SeqsUpTo(PlainAlphabet, MaxPlainLen)

\* words as the segment parser receives them: literals and all eight markers
PartAlphabet == {"U+0628"} \cup MarkerSet

Parts == SeqsUpTo(PartAlphabet, MaxPartLen)

\* style vectors a word can be entered with
InStates ==
  {NoStyle,
   [isBold |-> TRUE, isUnderline |-> TRUE, isStrike |-> TRUE, isLtr |-> TRUE],
   [NoStyle EXCEPT !.isBold = TRUE],
   [NoStyle EXCEPT !.isUnderline = TRUE, !.isLtr = TRUE]}

\* texts of the token specification: a letter between spaces, tabs and
\* newlines
TokenAlphabet == {"U+0628", " ", "TAB", "LF"}

TokenTexts == SeqsUpTo(TokenAlphabet, MaxTokenLen)

\* texts of the paragraph specification: a bold pair around a Persian and a
\* Latin letter, a newline and a line-break tag
ParaAlphabet == {"<b>", "</b>", "U+0628", "a", "LF", "<br/>"}

ParaTexts == SeqsUpTo(ParaAlphabet, MaxParaLen)

\* constructor arguments of the probe specification
ProbeConfigs ==
  {[BaseConfig EXCEPT !.maxWidth = w, !.onPageBreak = cb] :
      w \in {14, 15}, cb \in Opt(Callbacks)}

\* words of the word specification: a letter, a digit, a Latin letter and the
\* markers
WordAlphabet == {"U+0628", "1", "a"} \cup MarkerSet

Words == SeqsUpTo(WordAlphabet, MaxWordLen)

WordConfigs ==
  {[BaseConfig EXCEPT !.convertDigitsToPersian = d] : d \in Opt({FALSE})}
  \cup {[BaseConfig EXCEPT !.underlineOffsetRatio = <<Scale \div 2>>,
                           !.strikeOffsetRatio = <<(3 * Scale) \div 10>>]}

\* ------------------------------------------------------------------------
\* the surface and the page counter as an operation finds them, with empty logs
Machine ==
  [font |-> doc.font, fontSize |-> doc.fontSize, pages |-> doc.pages,
   pageCounter |-> pageCounter,
   painted |-> <<>>, drawn |-> <<>>, rendered |-> <<>>, checks |-> <<>>,
   measured |-> <<>>, handed |-> <<>>, paragraphs |-> <<>>, cbArgs |-> <<>>,
   processed |-> <<>>]

\* what the call before returned, when it was a getTextWidth call
Probe ==
  IF out.op = "getTextWidth" THEN <<[text |-> out.text, ret |-> out.ret]>> ELSE <<>>

DoPrint(text, options) ==
  /\ calls < MaxCalls
  /\ \E r \in {print(text, options, Machine)} :
       /\ r.m.pages <= MaxPages
       /\ pageCounter' = r.m.pageCounter
       /\ doc' = [font |-> r.m.font, fontSize |-> r.m.fontSize, pages |-> r.m.pages]
       /\ cbLog' = cbLog \o [i \in DOMAIN r.m.cbArgs |-> r.m.cbArgs[i].pageNumber]
       /\ out' = [op |-> "print", text |-> text, options |-> options, ret |-> r.y,
                  painted |-> r.m.painted, drawn |-> r.m.drawn, rendered |-> r.m.rendered,
                  checks |-> r.m.checks, measured |-> r.m.measured,
                  handed |-> r.m.handed, callbacks |-> r.m.cbArgs,
                  paragraphs |-> r.m.paragraphs, processed |-> r.m.processed,
                  before |-> [doc |-> doc, pageCounter |-> pageCounter],
                  probe |-> Probe]
       /\ calls' = calls + 1
       /\ UNCHANGED config

DoGetTextWidth(text) ==
  /\ calls < MaxCalls
  /\ \E r \in {getTextWidth(text, Machine)} :
       /\ pageCounter' = r.m.pageCounter
       /\ doc' = [font |-> r.m.font, fontSize |-> r.m.fontSize, pages |-> r.m.pages]
       /\ cbLog' = cbLog \o [i \in DOMAIN r.m.cbArgs |-> r.m.cbArgs[i].pageNumber]
       /\ out' = [op |-> "getTextWidth", text |-> text, ret |-> r.maxWidth,
                  painted |-> r.m.painted, drawn |-> r.m.drawn, rendered |-> r.m.rendered,
                  checks |-> r.m.checks, measured |-> r.m.measured,
                  callbacks |-> r.m.cbArgs, processed |-> r.m.processed,
                  before |-> [doc |-> doc, pageCounter |-> pageCounter]]
       /\ calls' = calls + 1
       /\ UNCHANGED config

\* stripMarkers applied to the preprocessed text
DoStripMarkers(text) ==
  /\ calls < MaxCalls
  /\ out' = [op |-> "stripMarkers", text |-> text, processed |-> preprocessText(text),
             ret |-> stripMarkers(preprocessText(text))]
  /\ calls' = calls + 1
  /\ UNCHANGED <<config, pageCounter, doc, cbLog>>

\* parseSegmentsWithState on one word
DoParseSegments(word, state) ==
  /\ calls < MaxCalls
  /\ out' = [op |-> "parseSegmentsWithState", word |-> word, state |-> state,
             ret |-> parseSegmentsWithState(word, state)]
  /\ calls' = calls + 1
  /\ UNCHANGED <<config, pageCounter, doc, cbLog>>

\* getWordWidthWithState on one word; the surface keeps its size and pages
DoMeasureWord(word, state) ==
  /\ calls < MaxCalls
  /\ \E r \in {getWordWidthWithState(word, state, Machine)} :
       /\ doc' = [doc EXCEPT !.font = r.font]
       /\ out' = [op |-> "getWordWidthWithState", word |-> word, state |-> state,
                  ret |-> [width |-> r.width, state |-> r.state], arg |-> r.arg,
                  measured |-> r.queries, painted |-> Machine.painted,
                  drawn |-> Machine.drawn, before |-> [doc |-> doc]]
  /\ calls' = calls + 1
  /\ UNCHANGED <<config, pageCounter, cbLog>>

\* renderWordWithState on one word with its right edge at x on baseline y
DoRenderWord(word, x, y, state) ==
  /\ calls < MaxCalls
  /\ \E r \in {renderWordWithState(word, x, y, state, Machine)} :
       /\ doc' = [doc EXCEPT !.font = r.m.font]
       /\ out' = [op |-> "renderWordWithState", word |-> word, state |-> state,
                  x |-> x, y |-> y, ret |-> [x |-> r.x, state |-> r.state],
                  painted |-> r.m.painted, drawn |-> r.m.drawn,
                  before |-> [doc |-> doc]]
  /\ calls' = calls + 1
  /\ UNCHANGED <<config, pageCounter, cbLog>>

\* the public setFont: this.doc.setFont(name, style)
DoSetFont(name, style) ==
  /\ calls < MaxCalls
  /\ doc' = [doc EXCEPT !.font = [fontName |-> name, fontStyle |-> style]]
  /\ out' = [op |-> "setFont", name |-> name, style |-> style]
  /\ UNCHANGED <<config, pageCounter, cbLog, calls>>

\* the public setFontSize: this.doc.setFontSize(size)
DoSetFontSize(size) ==
  /\ calls < MaxCalls
  /\ doc' = [doc EXCEPT !.fontSize = size]
  /\ out' = [op |-> "setFontSize", size |-> size]
  /\ UNCHANGED <<config, pageCounter, cbLog, calls>>

NoOutput == [op |-> "none"]

\* the state after construction, the printer bound to a fresh document
InitWith(configs, fonts) ==
  /\ config \in {constructor(c) : c \in configs}
  /\ pageCounter = 1
  /\ doc \in [font : fonts, fontSize : {10}, pages : {0}]
  /\ out = NoOutput
  /\ cbLog = <<>>
  /\ calls = 0

Registered == [fontName |-> "Vazir", fontStyle |-> "normal"]

\* fonts and sizes the caller can have left the surface at
SurfaceFonts ==
  {Registered, [fontName |-> "Vazir", fontStyle |-> "bold"],
   [fontName |-> "helvetica", fontStyle |-> "normal"]}

SurfaceSizes == {10, 12}

\* --- the multi-call specification: chained print calls on one printer ----
Init == InitWith(MachineConfigs, {Registered})

\* a call starts at a fixed baseline or where the previous call ended; after
\* a setter, where a one-line call from the top baseline ended
StartYs ==
  IF out.op = "print" THEN {10, out.ret}
  ELSE IF out.op = "none" THEN {10, 20}
  ELSE {10, 10 + config.lineHeight}

Next ==
  \/ \E text \in MachineTexts, y \in StartYs :
       DoPrint(text, [startX |-> <<>>, startY |-> y, justify |-> <<>>])
  \/ \E font \in SurfaceFonts : DoSetFont(font.fontName, font.fontStyle)
  \/ \E size \in SurfaceSizes : DoSetFontSize(size)

Spec == Init /\ [][Next]_vars

\* --- the layout specification: one print call, every layout option -------
InitLayout == InitWith(LayoutConfigs, {Registered})

NextLayout ==
  /\ calls = 0
  /\ \E text \in LayoutTexts, j \in Opt({TRUE, FALSE}) :
       DoPrint(text, [startX |-> <<>>, startY |-> 20, justify |-> j])

SpecLayout == InitLayout /\ [][NextLayout]_vars

\* --- the markup specification: one print call on marked-up text ----------
InitMarkup == InitWith({BaseConfig}, {Registered})

NextMarkup ==
  /\ calls = 0
  /\ \E text \in MarkupTexts :
       DoPrint(text, [startX |-> <<>>, startY |-> 10, justify |-> <<>>])

SpecMarkup == InitMarkup /\ [][NextMarkup]_vars

\* --- the tag specification: one print call on text with style tags -------
InitTags == InitWith({BaseConfig}, {Registered})

NextTags ==
  /\ calls = 0
  /\ \E text \in TagTexts :
       DoPrint(text, [startX |-> <<>>, startY |-> 10, justify |-> <<>>])

SpecTags == InitTags /\ [][NextTags]_vars

\* --- the misconfiguration specification: chained print calls on a printer
\* whose header leaves no room for a line --------------------------------------
InitMisconfigured == InitWith(MisconfiguredConfigs, {Registered})

SpecMisconfigured == InitMisconfigured /\ [][Next]_vars

\* --- the decoration specification: one print call on underlined and struck
\* text ----------------------------------------------------------------------
InitDecor == InitWith(DecorConfigs, {Registered})

NextDecor ==
  /\ calls = 0
  /\ \E text \in DecorTexts :
       DoPrint(text, [startX |-> <<>>, startY |-> 10, justify |-> <<>>])

SpecDecor == InitDecor /\ [][NextDecor]_vars

\* --- the probe specification: getTextWidth as the last call, on a fresh
\* printer or after a print call that broke a page, on the surface that call
\* and its page-break callback left or that the caller has set since ----------
InitWidth == InitWith(MachineConfigs \cup LayoutConfigs, {Registered})

\* two paragraphs: from baseline 20 the second one breaks the page
WidthPrintTexts == {<<"U+0628", "LF", "U+0628">>}

NextWidth ==
  \/ /\ out.op = "none"
     /\ \E text \in WidthPrintTexts :
          DoPrint(text, [startX |-> <<>>, startY |-> 20, justify |-> <<>>])
  \/ /\ calls < MaxCalls
     /\ out.op # "getTextWidth"
     /\ \E text \in WidthTexts : DoGetTextWidth(text)
  \/ /\ out.op # "getTextWidth"
     /\ \E font \in SurfaceFonts : DoSetFont(font.fontName, font.fontStyle)
  \/ /\ out.op # "getTextWidth"
     /\ \E size \in SurfaceSizes : DoSetFontSize(size)

SpecWidth == InitWidth /\ [][NextWidth]_vars

\* --- the text specification: the text functions applied on their own -----
InitText == InitWith({BaseConfig}, {Registered})

NextText ==
  \/ /\ calls = 0
     /\ \E text \in PlainTexts : DoStripMarkers(text)
  \/ /\ calls = 0
     /\ \E word \in Parts, state \in InStates : DoParseSegments(word, state)

SpecText == InitText /\ [][NextText]_vars

\* --- the token specification: one print call on letters, spaces, tabs and
\* newlines ---------------------------------------------------------------------
InitTokens == InitWith({BaseConfig}, {Registered})

NextTokens ==
  /\ calls = 0
  /\ \E text \in TokenTexts :
       DoPrint(text, [startX |-> <<>>, startY |-> 10, justify |-> <<>>])

SpecTokens == InitTokens /\ [][NextTokens]_vars

\* --- the paragraph specification: one print call or one probe on text whose
\* tags and Latin runs meet paragraph breaks -------------------------------------
InitParagraphs == InitWith({BaseConfig}, {Registered})

NextParagraphs ==
  \/ /\ calls = 0
     /\ \E text \in ParaTexts :
          DoPrint(text, [startX |-> <<>>, startY |-> 10, justify |-> <<>>])
  \/ /\ calls = 0
     /\ \E text \in ParaTexts : DoGetTextWidth(text)

SpecParagraphs == InitParagraphs /\ [][NextParagraphs]_vars

\* --- the probe specification: getTextWidth on a text, then print on the same
\* text or, once the caller has set a font or a size in between, on a text of
\* the multi-call specification -------------------------------------------------
InitProbe ==
  InitWith(ProbeConfigs, {Registered, [fontName |-> "helvetica", fontStyle |-> "normal"]})

NextProbe ==
  \/ /\ calls = 0
     /\ \E text \in WidthTexts : DoGetTextWidth(text)
  \/ /\ calls = 1
     /\ \E text \in (IF out.op = "getTextWidth" THEN {out.text} ELSE MachineTexts),
           y \in {10, 28} :
          DoPrint(text, [startX |-> <<>>, startY |-> y, justify |-> <<>>])
  \/ /\ calls = 1
     /\ \E font \in SurfaceFonts : DoSetFont(font.fontName, font.fontStyle)
  \/ /\ calls = 1
     /\ \E size \in SurfaceSizes : DoSetFontSize(size)

SpecProbe == InitProbe /\ [][NextProbe]_vars

\* --- the word specification: one word measured or painted on its own, on a
\* surface left at any font and size -------------------------------------------
InitWord ==
  /\ config \in {constructor(c) : c \in WordConfigs}
  /\ pageCounter = 1
  /\ doc \in [font : SurfaceFonts, fontSize : SurfaceSizes, pages : {0}]
  /\ out = NoOutput
  /\ cbLog = <<>>
  /\ calls = 0

NextWord ==
  \/ /\ calls = 0
     /\ \E word \in Words, state \in InStates : DoMeasureWord(word, state)
  \/ /\ calls = 0
     /\ \E word \in Words, state \in InStates : DoRenderWord(word, 30 * Scale, 20, state)

SpecWord == InitWord /\ [][NextWord]_vars

\* ------------------------------------------------------------------------
\* Properties
\* ------------------------------------------------------------------------
Printed == out.op = "print"

\* the starting X and the justify flag the last print call worked with
UsedStartX == Nullish(out.options.startX, config.defaultStartX)

EffectiveJustify == Nullish(out.options.justify, config.justify)

\* what the wrap pass measured for a line: its words' widths plus one space
\* width per gap
LineLength(h) == SumSeq(h.widths) + (Len(h.words) - 1) * h.spaceWidth

\* C1 as stated: every line handed to the renderer is at most the effective
\* maximum width wide (measured word widths plus n-1 space widths).
C1_EveryLineFits ==
  Printed => \A i \in DOMAIN out.handed : LineLength(out.handed[i]) <= config.maxWidth

\* C1: every line handed to the renderer none of whose words is by itself
\* wider than the effective maximum width has measured word widths plus n-1
\* space widths <= the effective maximum width.
C1_WrapInvariant ==
  Printed =>
    \A i \in DOMAIN out.handed :
       LET h == out.handed[i]
       IN (\A k \in DOMAIN h.widths : h.widths[k] <= config.maxWidth)
            => LineLength(h) <= config.maxWidth

\* a line of several words that fills the effective maximum width exactly,
\* in a print call that also broke a line
C1_Witness ==
  /\ Printed
  /\ Len(out.handed) >= 2
  /\ \E i \in DOMAIN out.handed :
        Len(out.handed[i].words) >= 2 /\ LineLength(out.handed[i]) = config.maxWidth

\* the segments of a paragraph with their styles, read off the paragraph in
\* one left-to-right scan: a marker switches its flag, a marker or a space
\* ends the running segment
ScanFlag(flag, c, start, end) == IF c = start THEN TRUE ELSE IF c = end THEN FALSE ELSE flag

ScanStyle(style, c) ==
  [isBold |-> ScanFlag(style.isBold, c, "U+E000", "U+E001"),
   isUnderline |-> ScanFlag(style.isUnderline, c, "U+E004", "U+E005"),
   isStrike |-> ScanFlag(style.isStrike, c, "U+E006", "U+E007"),
   isLtr |-> ScanFlag(style.isLtr, c, "U+E008", "U+E009")]

ScanClose(run, style, acc) ==
  IF run = <<>> THEN acc
  ELSE Append(acc, [text |-> run, isBold |-> style.isBold, isUnderline |-> style.isUnderline,
                    isStrike |-> style.isStrike, isLtr |-> style.isLtr])

RECURSIVE ScanParagraph(_, _, _, _, _)
ScanParagraph(paragraph, i, style, run, acc) ==
  IF i > Len(paragraph) THEN ScanClose(run, style, acc)
  ELSE LET c == paragraph[i]
       IN IF c \in MarkerSet
          THEN ScanParagraph(paragraph, i + 1, ScanStyle(style, c), <<>>, ScanClose(run, style, acc))
          ELSE IF c = " "
               THEN ScanParagraph(paragraph, i + 1, style, <<>>, ScanClose(run, style, acc))
               ELSE ScanParagraph(paragraph, i + 1, style, Append(run, c), acc)

PaintedSegments(p) ==
  [k \in 1..(p.lastPaint - p.firstPaint + 1) |-> out.painted[p.firstPaint + k - 1].segment]

\* C2: wherever the lines break, the segments painted for a paragraph carry
\* the style obtained by folding, from the all-false vector, every marker
\* that precedes them in the paragraph.
C2_StylePersistsAcrossWrap ==
  Printed =>
    \A i \in DOMAIN out.paragraphs :
       PaintedSegments(out.paragraphs[i])
         = ScanParagraph(out.paragraphs[i].text, 1, NoStyle, <<>>, <<>>)

\* a bold segment painted on a line that began inside the bold scope, after
\* the first line of its paragraph, followed in that paragraph by a segment
\* painted not bold
C2_Witness ==
  /\ Printed
  /\ \E i \in DOMAIN out.paragraphs :
       LET p == out.paragraphs[i]
       IN \E k \in p.firstPaint..p.lastPaint, l \in p.firstPaint..p.lastPaint :
            /\ k < l
            /\ out.painted[k].segment.isBold
            /\ out.painted[k].line > p.firstLine
            /\ out.rendered[out.painted[k].line].initialState.isBold
            /\ ~out.painted[l].segment.isBold

\* C3: the strings painted are, one for one, the strings the wrap pass
\* measured, each under the same font, bold iff the segment is bold.
C3_MeasurePaintIdentity ==
  Printed =>
    /\ Len(out.painted) = Len(out.measured)
    /\ \A i \in DOMAIN out.painted :
          /\ out.painted[i].text = out.measured[i].text
          /\ out.painted[i].font = out.measured[i].font
          /\ (out.painted[i].font.fontStyle = "bold") <=> out.painted[i].segment.isBold

\* a bold segment painted with a localized digit
C3_Witness ==
  /\ Printed
  /\ \E i \in DOMAIN out.painted :
        /\ out.painted[i].font.fontStyle = "bold"
        /\ \E k \in DOMAIN out.painted[i].text : out.painted[i].text[k] \in PersianDigits
        /\ \E k \in DOMAIN out.painted[i].segment.text :
              out.painted[i].segment.text[k] \in AsciiDigits

\* position i of the text lies between an <ltr> and the </ltr> that closes
\* it: no other <ltr> or </ltr> and no line break comes between the two
InsideLtrPair(text, i) ==
  \E a \in 1..(i - 1), b \in (i + 1)..Len(text) :
     /\ text[a] = "<ltr>"
     /\ text[b] = "</ltr>"
     /\ \A k \in (a + 1)..(b - 1) :
           text[k] \notin {"<ltr>", "</ltr>"} \cup LineTerminators \cup BrTags

HasPersianDigit(t) == \E k \in DOMAIN t : t[k] \in PersianDigits

\* C4 as stated: when every ASCII digit of the text lies inside an
\* <ltr>...</ltr> pair, no measured and no painted string holds a Persian
\* digit.
C4_LtrDigitsStayAscii ==
  (Printed /\ \A i \in DOMAIN out.text :
                 out.text[i] \in AsciiDigits => InsideLtrPair(out.text, i))
    => /\ \A i \in DOMAIN out.painted : ~HasPersianDigit(out.painted[i].text)
       /\ \A i \in DOMAIN out.measured : ~HasPersianDigit(out.measured[i].text)

\* C5: a justified line of N >= 2 words with non-negative extra space per gap
\* has its first word's right edge at startX, its last word's left edge at
\* startX minus the effective maximum width, and equal gaps of
\* spaceWidth + extraSpacePerGap.
C5_JustifiedEdges ==
  Printed =>
    \A i \in DOMAIN out.rendered :
       LET l == out.rendered[i]
           n == Len(l.words)
       IN (l.strategy = "justified" /\ n >= 2 /\ l.gapWidth - l.spaceWidth >= 0)
            => /\ l.boxes[1].right = UsedStartX
               /\ l.boxes[n].left = UsedStartX - config.maxWidth
               /\ \A k \in 1..(n - 1) : l.boxes[k].left - l.boxes[k + 1].right = l.gapWidth

\* a justified line of three words whose gaps are wider than a space
C5_Witness ==
  /\ Printed
  /\ \E i \in DOMAIN out.rendered :
        /\ out.rendered[i].strategy = "justified"
        /\ Len(out.rendered[i].words) >= 3
        /\ out.rendered[i].gapWidth > out.rendered[i].spaceWidth

Fits(y) == y + config.lineHeight + 2 <= config.pageHeight - config.footerHeight - config.marginBottom

AddedChecks == SelectSeq(out.checks, LAMBDA c : c.added)

\* C6: a page-break check adds a page iff y + lineHeight + 2 exceeds
\* pageHeight - footerHeight - marginBottom; it then returns what the
\* callback returned if one is configured, else marginTop + headerHeight;
\* otherwise it returns y and adds no page.
C6_PageBreakDecision ==
  Printed =>
    /\ \A i \in DOMAIN out.checks :
          /\ out.checks[i].added <=> ~Fits(out.checks[i].y)
          /\ ~out.checks[i].added => out.checks[i].ret = out.checks[i].y
    /\ doc.pages - out.before.doc.pages = Len(AddedChecks)
    /\ IF config.onPageBreak = <<>>
       THEN /\ out.callbacks = <<>>
            /\ \A k \in DOMAIN AddedChecks :
                  AddedChecks[k].ret = config.marginTop + config.headerHeight
       ELSE /\ Len(out.callbacks) = Len(AddedChecks)
            /\ \A k \in DOMAIN AddedChecks : AddedChecks[k].ret = out.callbacks[k].ret

\* a call in which a check at the last fitting baseline added no page and a
\* later check added one and returned the callback's value
C6_Witness ==
  /\ Printed
  /\ config.onPageBreak = <<"byPage">>
  /\ \E i \in DOMAIN out.checks, j \in DOMAIN out.checks :
        /\ ~out.checks[i].added
        /\ out.checks[i].y + config.lineHeight + 2
             = config.pageHeight - config.footerHeight - config.marginBottom
        /\ out.checks[j].added
        /\ out.checks[j].ret # config.marginTop + config.headerHeight

\* C7: the page counter is 1 plus the pages requested from the surface, the
\* k-th page break calls the callback with k + 1, the counter never
\* decreases and no other printer field changes.
C7_PageCounter ==
  [][ /\ pageCounter' = 1 + doc'.pages
      /\ pageCounter' >= pageCounter
      /\ config' = config
      /\ (config.onPageBreak # <<>>) => Len(cbLog') = doc'.pages
      /\ \A k \in DOMAIN cbLog' : cbLog'[k] = k + 1 ]_vars

\* a second print call that added a page after the first call had added one
C7_Witness ==
  /\ Printed
  /\ calls = 2
  /\ out.before.pageCounter >= 2
  /\ pageCounter > out.before.pageCounter
  /\ Len(cbLog) >= 2

\* C8: one fit check precedes each line; the line is painted at the baseline
\* the check returned, which either fits the page or is the resumption
\* baseline of a check that added a page.
C8_PageFit ==
  Printed =>
    /\ Len(out.checks) = Len(out.rendered)
    /\ \A i \in DOMAIN out.rendered :
          /\ out.rendered[i].checksDone = i
          /\ out.rendered[i].y = out.checks[i].ret
          /\ out.checks[i].added \/ Fits(out.rendered[i].y)
    /\ \A k \in DOMAIN out.painted :
          out.painted[k].y = out.checks[out.painted[k].line].ret

\* a line in the middle of its paragraph painted on the page its own check
\* added, at a baseline that differs from the one it was due at
C8_Witness ==
  /\ Printed
  /\ \E i \in DOMAIN out.paragraphs :
       LET p == out.paragraphs[i]
       IN \E k \in p.firstPaint..p.lastPaint :
            LET l == out.painted[k].line
            IN /\ l > p.firstLine
               /\ out.checks[l].added
               /\ out.checks[l].y # out.checks[l].ret

\* the lines on which print painted words
PaintedLines == {i \in DOMAIN out.rendered : out.rendered[i].words # <<>>}

BlankParagraphs == {i \in DOMAIN out.paragraphs : out.paragraphs[i].blank}

Max(S) == CHOOSE m \in S : \A n \in S : m >= n

\* C9 as stated: with a non-blank last paragraph print returns the baseline
\* of the last painted line plus lineHeight; without a page break it returns
\* startY + lineHeight * (painted lines + blank paragraphs).
C9_ReturnValue ==
  Printed =>
    /\ (~out.paragraphs[Len(out.paragraphs)].blank)
          => out.ret = out.rendered[Max(PaintedLines)].y + config.lineHeight
    /\ (AddedChecks = <<>>)
          => out.ret = out.options.startY
                         + config.lineHeight * (Cardinality(PaintedLines)
                                                  + Cardinality(BlankParagraphs))

IsLastLineOfParagraph(i) == \E k \in DOMAIN out.paragraphs : out.paragraphs[k].lastLine = i

\* C10: a line is painted justified iff the effective justify flag is true,
\* alignment is right, the line has more than one word and it is not the
\* last line of its paragraph; every other line is painted regular.
C10_JustifiedIff ==
  Printed =>
    \A i \in DOMAIN out.rendered :
       /\ out.rendered[i].strategy \in {"justified", "regular"}
       /\ out.rendered[i].strategy = "justified"
            <=> /\ EffectiveJustify
                /\ config.align = "right"
                /\ Len(out.rendered[i].words) > 1
                /\ ~IsLastLineOfParagraph(i)

\* a justified line in a call whose justify option overrode the constructor's
C10_Witness ==
  /\ Printed
  /\ ~config.justify
  /\ out.options.justify = <<TRUE>>
  /\ \E i \in DOMAIN out.rendered : out.rendered[i].strategy = "justified"
\* ------------------------------------------------------------------------
\* C11: a blank paragraph advances the baseline by lineHeight and leaves
\* everything else as it was: no text, no line, no page, no callback, the
\* page counter and the surface font unchanged, wherever the baseline is
\* ------------------------------------------------------------------------
C11_BlankParagraph ==
  Printed =>
    \A i \in BlankParagraphs :
       LET p == out.paragraphs[i]
       IN /\ p.to.y = p.from.y + config.lineHeight
          /\ p.to = [p.from EXCEPT !.y = p.to.y]

\* a blank paragraph met at a baseline that fails the page-fit test
C11_Witness ==
  /\ Printed
  /\ \E i \in BlankParagraphs : NeedsPageBreak(out.paragraphs[i].from.y)

\* ------------------------------------------------------------------------
\* C12: preprocessing leaves nothing of the form "<", one or more characters
\* other than ">", ">" in its output; the START markers of bold, underline
\* and strike in the output are no more than the opening tags of that family
\* that have a closing tag of the same name after them in the same
\* paragraph; a family none of whose opening tags is so closed styles no
\* painted segment.  (Forced-LTR markers also come from the automatic
\* direction wrapper and are left to C18 and C19.)
\* ------------------------------------------------------------------------
HasTagForm(text) ==
  \/ \E i \in DOMAIN text : text[i] \in TagLexemes
  \/ \E i, j \in DOMAIN text :
        /\ i + 1 < j
        /\ text[i] = "<"
        /\ text[j] = ">"
        /\ \A k \in (i + 1)..(j - 1) : text[k] # ">"

ParagraphBreaks == {"LF"} \cup BrTags

\* the opening tags of family s in the input that a closing tag of the same
\* name follows in the same paragraph
ClosedOpenings(text, s) ==
  {i \in DOMAIN text :
     \E name \in styles[s].names :
        /\ <<text[i], name>> \in OpenTags
        /\ \E j \in (i + 1)..Len(text) :
              /\ <<text[j], name>> \in CloseTags
              /\ \A k \in (i + 1)..(j - 1) : text[k] \notin ParagraphBreaks}

Occurrences(text, c) == Cardinality({i \in DOMAIN text : text[i] = c})

StyleFlag(segment, s) ==
  IF s = 1 THEN segment.isBold ELSE IF s = 2 THEN segment.isUnderline ELSE segment.isStrike

C12_MarkupDegradation ==
  Printed =>
    /\ ~HasTagForm(out.processed)
    /\ \A s \in 1..3 :
         /\ Occurrences(out.processed, styles[s].start)
              <= Cardinality(ClosedOpenings(out.text, s))
         /\ ClosedOpenings(out.text, s) = {} =>
              \A k \in DOMAIN out.painted : ~StyleFlag(out.painted[k].segment, s)

\* text between <b> and </strong>, with an unknown tag and no </b>, painted
C12_Witness ==
  /\ Printed
  /\ \E i, j \in DOMAIN out.text :
        i + 1 < j /\ out.text[i] = "<b>" /\ out.text[j] = "</strong>"
  /\ \E i \in DOMAIN out.text : out.text[i] = "<x>"
  /\ \A i \in DOMAIN out.text : out.text[i] # "</b>"
  /\ out.painted # <<>>

\* ------------------------------------------------------------------------
\* C13 as stated: on text without tags, preprocessing followed by
\* stripMarkers returns the text unchanged
\* ------------------------------------------------------------------------
C13_RoundTripIdentity ==
  out.op = "stripMarkers" => out.ret = out.text

\* the text with "(" and ")" exchanged and the marker code points left out
ParenthesesExchanged(text) ==
  [i \in DOMAIN text |-> CASE text[i] = "(" -> ")" [] text[i] = ")" -> "(" [] OTHER -> text[i]]

WithoutMarkers(text) ==
  LET keep == {i \in DOMAIN text : text[i] \notin MarkerSet}
      pos(k) == CHOOSE i \in keep : Cardinality({h \in keep : h < i}) = k - 1
  IN [k \in 1..Cardinality(keep) |-> text[pos(k)]]

\* C13 as the code has it: on text without tags, preprocessing followed by
\* stripMarkers returns the text with its parentheses exchanged and its
\* marker code points removed, hence the text itself when it holds neither
C13_RoundTrip ==
  out.op = "stripMarkers" =>
    /\ out.ret = ParenthesesExchanged(WithoutMarkers(out.text))
    /\ (\A i \in DOMAIN out.text : out.text[i] \notin MarkerSet \cup {"(", ")"})
          => out.ret = out.text

\* a text without parentheses on which preprocessing inserted markers that
\* stripMarkers took out again
C13_Witness ==
  /\ out.op = "stripMarkers"
  /\ out.processed # out.text
  /\ Len(out.text) > 1
  /\ \A i \in DOMAIN out.text : out.text[i] \notin MarkerSet \cup {"(", ")"}
  /\ out.ret = out.text

\* ------------------------------------------------------------------------
\* C20: segmenting a word folds its markers left to right.  A flag after
\* position k is decided by the last marker of its family at or before k
\* (START gives true, END gives false, however many scopes were opened) and
\* is the incoming flag when there is none; every maximal run of literal
\* characters is one segment, in order, with the flags before its first
\* character; the returned vector is the one after the last position.
\* ------------------------------------------------------------------------
FlagAfter(word, incoming, k, start, end) ==
  LET ms == {i \in 1..k : word[i] \in {start, end}}
  IN IF ms = {} THEN incoming ELSE word[Max(ms)] = start

FlagsAfter(word, state, k) ==
  [isBold |-> FlagAfter(word, state.isBold, k, MARKERS.BOLD_START, MARKERS.BOLD_END),
   isUnderline |-> FlagAfter(word, state.isUnderline, k,
                             MARKERS.UNDERLINE_START, MARKERS.UNDERLINE_END),
   isStrike |-> FlagAfter(word, state.isStrike, k, MARKERS.STRIKE_START, MARKERS.STRIKE_END),
   isLtr |-> FlagAfter(word, state.isLtr, k, MARKERS.LTR_START, MARKERS.LTR_END)]

\* the maximal runs of literal characters of a word, as <<first, last>>
LiteralRuns(word) ==
  {run \in (DOMAIN word) \X (DOMAIN word) :
     /\ run[1] <= run[2]
     /\ \A i \in run[1]..run[2] : word[i] \notin MarkerSet
     /\ run[1] = 1 \/ word[run[1] - 1] \in MarkerSet
     /\ run[2] = Len(word) \/ word[run[2] + 1] \in MarkerSet}

C20_StyleFold ==
  out.op = "parseSegmentsWithState" =>
    LET runs == LiteralRuns(out.word)
        segments == out.ret.segments
    IN /\ Len(segments) = Cardinality(runs)
       /\ \A run \in runs :
            LET k == Cardinality({q \in runs : q[1] < run[1]}) + 1
                flags == FlagsAfter(out.word, out.state, run[1] - 1)
            IN segments[k] = [text |-> SubSeq(out.word, run[1], run[2]),
                              isBold |-> flags.isBold, isUnderline |-> flags.isUnderline,
                              isStrike |-> flags.isStrike, isLtr |-> flags.isLtr]
       /\ out.ret.state = FlagsAfter(out.word, out.state, Len(out.word))

\* a literal after START START END of one family: the flag is off although
\* one scope is still open
C20_Witness ==
  /\ out.op = "parseSegmentsWithState"
  /\ out.state = NoStyle
  /\ out.word = <<MARKERS.UNDERLINE_START, MARKERS.UNDERLINE_START,
                  MARKERS.UNDERLINE_END, "U+0628">>
  /\ Len(out.ret.segments) = 1
  /\ ~out.ret.segments[1].isUnderline

\* ------------------------------------------------------------------------
\* C14: getTextWidth returns the largest, over the non-blank paragraphs of
\* the preprocessed text, of the paragraph's word widths (style threaded
\* from the all-false vector at the paragraph start) plus one space width
\* per gap, and 0 when every paragraph is blank; it paints nothing, adds no
\* page and leaves the page counter and the surface font as they were.
\* ------------------------------------------------------------------------
Probed == out.op = "getTextWidth"

\* the width of one scanned segment on the surface the call found
ScannedWidth(segment) ==
  DocTextWidth(IF config.convertDigitsToPersian /\ ~segment.isLtr
               THEN [i \in DOMAIN segment.text |->
                       IF segment.text[i] \in AsciiDigits
                       THEN persianDigits[segment.text[i]] ELSE segment.text[i]]
               ELSE segment.text,
               [fontName |-> config.fontName,
                fontStyle |-> IF segment.isBold THEN "bold" ELSE "normal"],
               out.before.doc.fontSize)

\* the number of words of a paragraph: the places where a word begins
WordCount(paragraph) ==
  Cardinality({i \in DOMAIN paragraph :
                 paragraph[i] # " " /\ (i = 1 \/ paragraph[i - 1] = " ")})

ExpectedParagraphWidth(paragraph) ==
  LET segments == ScanParagraph(paragraph, 1, NoStyle, <<>>, <<>>)
  IN SumSeq([k \in DOMAIN segments |-> ScannedWidth(segments[k])])
       + (WordCount(paragraph) - 1)
           * DocTextWidth(<<" ">>, out.before.doc.font, out.before.doc.fontSize)

ProbedParagraphs == SplitOn(out.processed, "LF")

NonBlank(paragraphs) == {i \in DOMAIN paragraphs : ~IsBlank(paragraphs[i])}

C14_TextWidth ==
  Probed =>
    LET paragraphs == ProbedParagraphs
        widths == {ExpectedParagraphWidth(paragraphs[i]) : i \in NonBlank(paragraphs)}
    IN /\ out.ret = IF widths = {} THEN 0 ELSE Max(widths)
       /\ out.painted = <<>> /\ out.drawn = <<>> /\ out.rendered = <<>>
       /\ out.callbacks = <<>>
       /\ doc = out.before.doc
       /\ pageCounter = out.before.pageCounter

\* a probe, after a print call that broke a page and on a surface at font
\* size 12, of a text of two paragraphs the first of which is the wider, with a
\* bold segment
C14_Witness ==
  /\ Probed
  /\ pageCounter >= 2
  /\ out.before.doc.fontSize = 12
  /\ Len(ProbedParagraphs) = 2
  /\ NonBlank(ProbedParagraphs) = {1, 2}
  /\ ExpectedParagraphWidth(ProbedParagraphs[1]) > ExpectedParagraphWidth(ProbedParagraphs[2])
  /\ out.ret > 0
  /\ \E k \in DOMAIN out.measured : out.measured[k].font.fontStyle = "bold"

\* ------------------------------------------------------------------------
\* C15: in both strategies the lines drawn across the gaps of a rendered
\* line are, gap by gap from the right, an underline iff the style after
\* the word before the gap has underline set and a strike iff it has strike
\* set, each from the left edge of the word before the gap to the right
\* edge of the word after it, where it meets the lines of the same kind drawn
\* for the two words, whose scope the gap lies in.
\* ------------------------------------------------------------------------
\* the markers and characters of the first g words of a line
RECURSIVE WordsUpTo(_, _)
WordsUpTo(words, g) == IF g = 0 THEN <<>> ELSE WordsUpTo(words, g - 1) \o words[g]

StyleAfterWord(L, g) ==
  LET text == WordsUpTo(L.words, g)
  IN FlagsAfter(text, L.initialState, Len(text))

\* the height of a decoration line of a rendered line: the underline the
\* ratio times the font size below the baseline, the strike above it
ExpectedLineY(L, kind) ==
  IF kind = "underline" THEN L.y * Scale + L.fontSize * config.underlineOffsetRatio
  ELSE L.y * Scale - L.fontSize * config.strikeOffsetRatio

ExpectedGapLine(L, l, g, kind) ==
  [kind |-> kind, x1 |-> L.boxes[g].left, x2 |-> L.boxes[g + 1].right,
   y |-> ExpectedLineY(L, kind), at |-> "gap", line |-> l]

RECURSIVE ExpectedGapLines(_, _, _)
ExpectedGapLines(L, l, g) ==
  IF g = 0 THEN <<>>
  ELSE ExpectedGapLines(L, l, g - 1)
         \o (IF StyleAfterWord(L, g).isUnderline
             THEN <<ExpectedGapLine(L, l, g, "underline")>> ELSE <<>>)
         \o (IF StyleAfterWord(L, g).isStrike
             THEN <<ExpectedGapLine(L, l, g, "strike")>> ELSE <<>>)

DrawnInGaps(l) == SelectSeq(out.drawn, LAMBDA d : d.at = "gap" /\ d.line = l)

\* the line d drawn across a gap meets, at the point x, a line of the same
\* kind drawn under or through a segment of the same rendered line
MeetsSegmentLine(d, x) ==
  \E k \in DOMAIN out.drawn :
     /\ out.drawn[k].at = "segment"
     /\ out.drawn[k].line = d.line
     /\ out.drawn[k].kind = d.kind
     /\ out.drawn[k].y = d.y
     /\ out.drawn[k].x2 <= x
     /\ x <= out.drawn[k].x1

C15_GapDecoration ==
  Printed =>
    \A l \in DOMAIN out.rendered :
       LET L == out.rendered[l]
       IN /\ DrawnInGaps(l) = ExpectedGapLines(L, l, Len(L.words) - 1)
          /\ \A g \in 1..(Len(L.words) - 1) : L.boxes[g + 1].right = L.boxes[g].left - L.gapWidth
          /\ \A k \in DOMAIN DrawnInGaps(l) :
                /\ MeetsSegmentLine(DrawnInGaps(l)[k], DrawnInGaps(l)[k].x1)
                /\ MeetsSegmentLine(DrawnInGaps(l)[k], DrawnInGaps(l)[k].x2)

\* a justified line with widened gaps, one of them underlined and one not
C15_Witness ==
  /\ Printed
  /\ \E l \in DOMAIN out.rendered :
        LET L == out.rendered[l]
        IN /\ L.strategy = "justified"
           /\ L.gapWidth > L.spaceWidth
           /\ \E d \in Range(DrawnInGaps(l)) : d.kind = "underline"
           /\ \E g \in 1..(Len(L.words) - 1) : ~StyleAfterWord(L, g).isUnderline

\* ------------------------------------------------------------------------
\* C16: when every resumption baseline fails the fit test, then from the
\* first page break of a call on each painted line is on a page of its own:
\* exactly one page is added between it and the painted line before it, it
\* is painted at the baseline its check returned, and the pages added are no
\* more than the lines painted.
\* ------------------------------------------------------------------------
ResumptionNeverFits ==
  \A i \in DOMAIN out.checks : out.checks[i].added => ~Fits(out.checks[i].ret)

\* the pages added by the checks numbered i to j
PagesAddedIn(i, j) == Cardinality({k \in i..j : out.checks[k].added})

\* the painted line before line i, 0 when there is none
PaintedBefore(i) ==
  IF \E j \in PaintedLines : j < i THEN Max({j \in PaintedLines : j < i}) ELSE 0

C16_OneLinePerPage ==
  (Printed /\ ResumptionNeverFits) =>
    /\ Len(out.checks) = Len(out.rendered)
    /\ \A i \in PaintedLines :
          PagesAddedIn(1, i - 1) > 0 =>
             /\ PagesAddedIn(PaintedBefore(i) + 1, i) = 1
             /\ out.checks[i].added
             /\ out.rendered[i].y = out.checks[i].ret
    /\ Len(AddedChecks) <= Cardinality(PaintedLines)

\* ------------------------------------------------------------------------
\* C17: in the preprocessed text each marker family is balanced: at every
\* position the STARTs so far are at least the ENDs so far, and over the
\* whole text they are as many.
\* ------------------------------------------------------------------------
CountUpTo(text, k, c) == Cardinality({i \in 1..k : text[i] = c})

Balanced(text, start, end) ==
  /\ \A k \in DOMAIN text : CountUpTo(text, k, start) >= CountUpTo(text, k, end)
  /\ CountUpTo(text, Len(text), start) = CountUpTo(text, Len(text), end)

C17_MarkersBalanced ==
  Printed =>
    \A s \in DOMAIN styles : Balanced(out.processed, styles[s].start, styles[s].end)

\* ------------------------------------------------------------------------
\* C18: when the author's <ltr> and </ltr> tags alternate (no pair inside
\* another), the preprocessed text never has an LTR_START while a forced-LTR
\* scope is open: the depth of LTR scopes is at most one everywhere.
\* ------------------------------------------------------------------------
LtrTagsAt(text) == {i \in DOMAIN text : text[i] \in {"<ltr>", "</ltr>"}}

AuthorPairsFlat(text) ==
  \A i \in LtrTagsAt(text) :
     LET later == {j \in LtrTagsAt(text) : j > i}
     IN later # {} => text[Min(later)] # text[i]

LtrDepth(text, k) ==
  CountUpTo(text, k, MARKERS.LTR_START) - CountUpTo(text, k, MARKERS.LTR_END)

C18_NoDoubleWrap ==
  (Printed /\ AuthorPairsFlat(out.text)) =>
     \A k \in DOMAIN out.processed : LtrDepth(out.processed, k) <= 1

\* ------------------------------------------------------------------------
\* C19: every string with an ASCII letter is measured without digit
\* conversion and painted in a forced-LTR segment, unconverted and with the
\* bidi hint off, whatever precedes it, a Latin run in the paragraph before
\* included.
\* ------------------------------------------------------------------------
HasLatinLetter(t) == \E k \in DOMAIN t : t[k] \in LatinLetters

C19_LatinIsolation ==
  Printed =>
    /\ \A i \in DOMAIN out.painted :
          HasLatinLetter(out.painted[i].segment.text) =>
             /\ out.painted[i].segment.isLtr
             /\ ~out.painted[i].isOutputRtl
             /\ out.painted[i].text = out.painted[i].segment.text
    /\ \A i \in DOMAIN out.measured :
          HasLatinLetter(out.measured[i].text) => ~HasPersianDigit(out.measured[i].text)

\* ------------------------------------------------------------------------
\* C21: measuring a word leaves the surface as it found it: the font name
\* and style and the font size are those before the call, nothing is painted
\* or drawn, and the caller's style object keeps the fields it was passed with.
\* ------------------------------------------------------------------------
Measured == out.op = "getWordWidthWithState"

C21_MeasureLeavesSurface ==
  Measured =>
    /\ doc.font = out.before.doc.font
    /\ doc.fontSize = out.before.doc.fontSize
    /\ doc.pages = out.before.doc.pages
    /\ out.painted = <<>>
    /\ out.drawn = <<>>
    /\ out.arg = out.state

\* a measurement that set another font than the surface had and whose
\* parser moved the style vector
C21_Witness ==
  /\ Measured
  /\ \E i \in DOMAIN out.measured : out.measured[i].font # out.before.doc.font
  /\ out.before.doc.font.fontStyle = "bold"
  /\ out.ret.state # out.state
  /\ out.ret.width > 0

\* ------------------------------------------------------------------------
\* C22: a regular line whose words and single spaces are at most the
\* effective maximum width wide starts at startX when right-aligned, at
\* startX - (W - L) when left-aligned (its last word ends at startX - W), and
\* at startX - (W - L)/2 when centred (equal margins); consecutive words are
\* one space width apart.
\* ------------------------------------------------------------------------
BoxWidths(r) == [i \in DOMAIN r.boxes |-> r.boxes[i].right - r.boxes[i].left]

\* the word widths of a painted line plus one space width per gap
PaintedLength(r) == SumSeq(BoxWidths(r)) + (Len(r.words) - 1) * r.spaceWidth

RegularLines ==
  {i \in DOMAIN out.rendered :
     /\ out.rendered[i].strategy = "regular"
     /\ Len(out.rendered[i].words) >= 1
     /\ PaintedLength(out.rendered[i]) <= config.maxWidth}

C22_RegularAlignment ==
  Printed =>
    \A i \in RegularLines :
       LET r == out.rendered[i]
           n == Len(r.words)
           W == config.maxWidth
           L == PaintedLength(r)
       IN /\ Len(r.boxes) = n
          /\ config.align = "right" => r.boxes[1].right = r.startX
          /\ config.align = "left" =>
                /\ r.boxes[1].right = r.startX - (W - L)
                /\ r.boxes[n].left = r.startX - W
          /\ config.align = "center" =>
                /\ 2 * (r.startX - r.boxes[1].right) = W - L
                /\ r.startX - r.boxes[1].right = r.boxes[n].left - (r.startX - W)
          /\ \A k \in 1..(n - 1) : r.boxes[k].left - r.boxes[k + 1].right = r.spaceWidth

\* a left-aligned line of several words, one of them bold, shorter than the
\* maximum width
C22_Witness ==
  /\ Printed
  /\ config.align = "left"
  /\ \E i \in RegularLines :
        /\ Len(out.rendered[i].words) >= 2
        /\ PaintedLength(out.rendered[i]) < config.maxWidth
        /\ out.rendered[i].boxes[1].right < out.rendered[i].startX
        /\ \E k \in DOMAIN out.painted :
              out.painted[k].line = i /\ out.painted[k].font.fontStyle = "bold"

\* ------------------------------------------------------------------------
\* C23: within a word, the underline (strike) of a segment reaches 0.3 past
\* the segment's edge toward the previous or the next segment exactly when
\* that neighbour is underlined (struck) too; toward a neighbour without the
\* same decoration the line ends at the segment's edge.
\* ------------------------------------------------------------------------
WordPainted == out.op = "renderWordWithState"

Carries(segment, kind) ==
  IF kind = "underline" THEN segment.isUnderline ELSE segment.isStrike

\* the lines of one kind drawn under or through segments, in drawing order
SegmentLines(kind) ==
  SelectSeq(out.drawn, LAMBDA d : d.kind = kind /\ d.at = "segment")

\* how many of the first k painted segments carry the decoration
CarriedUpTo(k, kind) ==
  Cardinality({j \in 1..k : Carries(out.painted[j].segment, kind)})

\* the line of that kind that C23 expects for painted segment k
ExpectedSegmentLine(k, kind) ==
  LET p == out.painted[k]
      n == Len(out.painted)
      toPrev == k > 1 /\ Carries(out.painted[k - 1].segment, kind)
      toNext == k < n /\ Carries(out.painted[k + 1].segment, kind)
  IN [x1 |-> IF toPrev THEN p.x + overlap ELSE p.x,
      x2 |-> IF toNext THEN p.x - p.width - overlap ELSE p.x - p.width]

C23_OverlapSameDecoration ==
  WordPainted =>
    \A kind \in {"underline", "strike"} :
       /\ Len(SegmentLines(kind)) = CarriedUpTo(Len(out.painted), kind)
       /\ \A k \in DOMAIN out.painted :
             Carries(out.painted[k].segment, kind) =>
                LET d == SegmentLines(kind)[CarriedUpTo(k, kind)]
                IN /\ d.x1 = ExpectedSegmentLine(k, kind).x1
                   /\ d.x2 = ExpectedSegmentLine(k, kind).x2

\* ------------------------------------------------------------------------
\* C24: painting a word with its right edge at x returns x minus the width
\* that measuring the same word with the same incoming style returns, and the
\* same outgoing style; the segments are painted in parsed order, the first
\* at x and each next one where the previous one ended.
\* ------------------------------------------------------------------------
\* the measurement of the painted word on the surface as the call found it
MeasuredBefore ==
  getWordWidthWithState(out.word, out.state,
    [font |-> out.before.doc.font, fontSize |-> out.before.doc.fontSize])

C24_WidthPaintConsistency ==
  WordPainted =>
    /\ out.ret.x = out.x - MeasuredBefore.width
    /\ out.ret.state = MeasuredBefore.state
    /\ [k \in DOMAIN out.painted |-> out.painted[k].segment]
          = parseSegmentsWithState(out.word, out.state).segments
    /\ \A k \in DOMAIN out.painted :
          /\ k = 1 => out.painted[k].x = out.x
          /\ k > 1 => /\ out.painted[k].x = out.painted[k - 1].x - out.painted[k - 1].width
                      /\ out.painted[k].x <= out.painted[k - 1].x

\* a word of a localized digit and a bold letter entered without style
C24_Witness ==
  /\ WordPainted
  /\ Len(out.painted) >= 2
  /\ out.painted[1].text # out.painted[1].segment.text
  /\ out.painted[2].font.fontStyle = "bold"
  /\ out.painted[2].width # out.painted[1].width
  /\ out.ret.state # out.state
  /\ out.ret.x < out.painted[2].x

\* ------------------------------------------------------------------------
\* C25: while a paragraph is packed, a word joins the current line exactly
\* when the line's width so far plus the word's width plus one space width
\* (none on an empty line) is at most the effective maximum width; a sum
\* equal to the maximum does not break, and a word that makes the sum larger
\* closes the line and opens the next one.
\* ------------------------------------------------------------------------
\* the wrap pass's lineWidth after the first k words of a handed line
WidthUpTo(h, k) ==
  IF k = 0 THEN 0
  ELSE SumSeq(SubSeq(h.widths, 1, k)) + (k - 1) * h.spaceWidth

SpaceToUse(h, k) == IF k > 0 THEN h.spaceWidth ELSE 0

\* the lines handed over for the paragraphs that have any
PackedParagraphs ==
  {i \in DOMAIN out.paragraphs :
     ~out.paragraphs[i].blank /\ out.paragraphs[i].firstLine <= out.paragraphs[i].lastLine}

C25_GreedyBreak ==
  Printed =>
    /\ Len(out.handed) = Len(out.rendered)
    /\ \A i \in PackedParagraphs :
          \A l \in out.paragraphs[i].firstLine..out.paragraphs[i].lastLine :
             LET h == out.handed[l]
             IN /\ Len(h.widths) = Len(h.words)
                \* every word but the first joined the line it is on
                /\ \A k \in 2..Len(h.words) :
                      WidthUpTo(h, k - 1) + h.widths[k] + SpaceToUse(h, k - 1) <= config.maxWidth
                \* the first word of a paragraph joins the empty line if it fits
                /\ (l = out.paragraphs[i].firstLine /\ Len(h.words) > 0) =>
                      h.widths[1] <= config.maxWidth
                \* the first word of a later line did not fit the line before
                /\ l > out.paragraphs[i].firstLine =>
                      LET prev == out.handed[l - 1]
                      IN /\ Len(h.words) > 0
                         /\ WidthUpTo(prev, Len(prev.words)) + h.widths[1]
                               + SpaceToUse(prev, Len(prev.words)) > config.maxWidth

\* a line exactly as wide as the maximum, and a paragraph where one more
\* unit of width broke the line
C25_Witness ==
  /\ Printed
  /\ \E l \in DOMAIN out.handed :
        /\ Len(out.handed[l].words) >= 2
        /\ WidthUpTo(out.handed[l], Len(out.handed[l].words)) = config.maxWidth
  /\ \E i \in PackedParagraphs :
        \E l \in (out.paragraphs[i].firstLine + 1)..out.paragraphs[i].lastLine :
           LET prev == out.handed[l - 1]
           IN /\ Len(prev.words) > 0
              /\ WidthUpTo(prev, Len(prev.words)) + out.handed[l].widths[1] + prev.spaceWidth
                    = config.maxWidth + Scale

\* ------------------------------------------------------------------------
\* C26: when print finds the surface at (fontName, normal) and the
\* page-break callback leaves font and size alone, every line painted with
\* the justified strategy has an extra space per gap of at least 0: its gaps
\* are at least one space width wide.
\* ------------------------------------------------------------------------
\* the configured callback, if any, returns the surface as it got it
CallbackKeepsFont ==
  \A i \in DOMAIN config.onPageBreak :
     \A n \in 1..(MaxPages + 1) :
        onPageBreak(config.onPageBreak[i], n, out.before.doc).m = out.before.doc

SurfaceAtNormal ==
  out.before.doc.font = [fontName |-> config.fontName, fontStyle |-> "normal"]

JustifiedLines == {i \in DOMAIN out.rendered : out.rendered[i].strategy = "justified"}

\* gapWidth = spaceWidth + extraSpacePerGap
ExtraSpace(r) == r.gapWidth - r.spaceWidth

C26_ExtraSpaceNonNegative ==
  (Printed /\ SurfaceAtNormal /\ CallbackKeepsFont) =>
     \A i \in JustifiedLines : ExtraSpace(out.rendered[i]) >= 0

\* a justified line painted after a page-break callback ran, its words and
\* single spaces exactly as wide as the maximum
C26_Witness ==
  /\ Printed /\ SurfaceAtNormal /\ CallbackKeepsFont
  /\ \E i \in JustifiedLines :
        /\ ExtraSpace(out.rendered[i]) = 0
        /\ Len(out.callbacks) > 0
        /\ out.rendered[i].y = out.callbacks[Len(out.callbacks)].ret

\* ------------------------------------------------------------------------
\* C27: every line handed to the renderer has at least one word, also when
\* the first word of a paragraph is wider than the effective maximum width:
\* no page-break check is run and the baseline is not advanced for a line
\* without words.
\* ------------------------------------------------------------------------
\* the lines with words among the first l rendered lines
WordLinesUpTo(l) == {k \in 1..l : Len(out.rendered[k].words) >= 1}

C27_NoEmptyLine ==
  Printed =>
    /\ \A l \in DOMAIN out.rendered : Len(out.rendered[l].words) >= 1
    /\ \A l \in DOMAIN out.handed : Len(out.handed[l].words) >= 1
    /\ Len(out.checks) = Cardinality(WordLinesUpTo(Len(out.rendered)))
    /\ (\A i \in DOMAIN out.checks : ~out.checks[i].added) =>
          out.ret = out.options.startY
                      + config.lineHeight
                          * (Cardinality(WordLinesUpTo(Len(out.rendered)))
                               + Cardinality(BlankParagraphs))

\* ------------------------------------------------------------------------
\* C28: for every paragraph that is not blank, the word lists of the lines
\* rendered for it, concatenated in order, are the paragraph's tokens (the
\* maximal runs of characters other than the space): no word is dropped,
\* duplicated or reordered, and no word contains a space; a blank paragraph
\* has no lines.
\* ------------------------------------------------------------------------
\* the first and last position of each maximal run without a space
TokenSpans(p) ==
  {s \in (DOMAIN p) \X (DOMAIN p) :
     /\ s[1] <= s[2]
     /\ \A k \in s[1]..s[2] : p[k] # SPACE_CHAR
     /\ s[1] = 1 \/ p[s[1] - 1] = SPACE_CHAR
     /\ s[2] = Len(p) \/ p[s[2] + 1] = SPACE_CHAR}

Tokens(p) ==
  [j \in 1..Cardinality(TokenSpans(p)) |->
     LET s == CHOOSE t \in TokenSpans(p) :
                 Cardinality({u \in TokenSpans(p) : u[1] < t[1]}) = j - 1
     IN SubSeq(p, s[1], s[2])]

\* the words of rendered lines a..b, in order
RECURSIVE WordsOfLines(_, _)
WordsOfLines(a, b) ==
  IF a > b THEN <<>> ELSE out.rendered[a].words \o WordsOfLines(a + 1, b)

WordsOfParagraph(i) ==
  WordsOfLines(out.paragraphs[i].firstLine, out.paragraphs[i].lastLine)

\* C28 as stated: for every paragraph, blank ones included
C28_EveryParagraph ==
  Printed =>
    \A i \in DOMAIN out.paragraphs :
       /\ WordsOfParagraph(i) = Tokens(out.paragraphs[i].text)
       /\ \A k \in DOMAIN WordsOfParagraph(i) :
             \A c \in DOMAIN WordsOfParagraph(i)[k] : WordsOfParagraph(i)[k][c] # SPACE_CHAR

C28_WordConservation ==
  Printed =>
    \A i \in DOMAIN out.paragraphs :
       IF out.paragraphs[i].blank
       THEN WordsOfParagraph(i) = <<>>
       ELSE /\ WordsOfParagraph(i) = Tokens(out.paragraphs[i].text)
            /\ \A k \in DOMAIN WordsOfParagraph(i) :
                  \A c \in DOMAIN WordsOfParagraph(i)[k] :
                     WordsOfParagraph(i)[k][c] # SPACE_CHAR

\* a paragraph with doubled spaces whose words are spread over two lines
C28_Witness ==
  /\ Printed
  /\ \E i \in DOMAIN out.paragraphs :
        /\ ~out.paragraphs[i].blank
        /\ out.paragraphs[i].lastLine > out.paragraphs[i].firstLine
        /\ Len(WordsOfParagraph(i)) >= 2
        /\ \E k \in 1..(Len(out.paragraphs[i].text) - 1) :
              out.paragraphs[i].text[k] = SPACE_CHAR /\ out.paragraphs[i].text[k + 1] = SPACE_CHAR

\* ------------------------------------------------------------------------
\* C29: in print and in getTextWidth every paragraph is measured, and in
\* print painted, from the all-false style vector, whatever markers the
\* paragraphs before it left open; and when the only closing tags that
\* follow the bold opening tags lie beyond a <br>, <br/> or newline, no bold
\* marker is produced and nothing of either paragraph is bold, underlined
\* or struck.
\* ------------------------------------------------------------------------
LaidOut == out.op \in {"print", "getTextWidth"}

\* the (string, font) pairs of a paragraph's segments, styled by the markers
\* before them in the paragraph alone
ScannedQueries(paragraph) ==
  LET segments == ScanParagraph(paragraph, 1, NoStyle, <<>>, <<>>)
  IN [k \in DOMAIN segments |->
        [text |-> textForMeasure(segments[k]), font |-> SegmentFont(segments[k])]]

RECURSIVE QueriesFrom(_, _)
QueriesFrom(paragraphs, i) ==
  IF i > Len(paragraphs) THEN <<>>
  ELSE ScannedQueries(paragraphs[i]) \o QueriesFrom(paragraphs, i + 1)

\* the style the markers of a paragraph leave behind
StyleLeftBy(paragraph) == FlagsAfter(paragraph, NoStyle, Len(paragraph))

\* bold tag pairs of the input whose content holds a paragraph break
SpanningPairs(text) ==
  {ij \in (DOMAIN text) \X (DOMAIN text) :
     /\ ij[1] < ij[2]
     /\ \E name \in styles[1].names :
           <<text[ij[1]], name>> \in OpenTags /\ <<text[ij[2]], name>> \in CloseTags
     /\ \E k \in (ij[1] + 1)..(ij[2] - 1) : text[k] \in ParagraphBreaks}

C29_ParagraphStyleReset ==
  LaidOut =>
    /\ out.measured = QueriesFrom(SplitOn(out.processed, "LF"), 1)
    /\ Printed =>
          \A i \in DOMAIN out.paragraphs :
             LET p == out.paragraphs[i]
                 scanned == ScanParagraph(p.text, 1, NoStyle, <<>>, <<>>)
             IN (~p.blank /\ scanned # <<>>) =>
                   /\ p.firstPaint <= p.lastPaint
                   /\ out.painted[p.firstPaint].segment = scanned[1]
                   /\ out.rendered[p.firstLine].initialState = NoStyle
    /\ (SpanningPairs(out.text) # {} /\ ClosedOpenings(out.text, 1) = {}) =>
          /\ \A k \in DOMAIN out.processed :
                out.processed[k] \notin {MARKERS.BOLD_START, MARKERS.BOLD_END}
          /\ \A k \in DOMAIN out.measured : out.measured[k].font.fontStyle = "normal"
          /\ \A k \in DOMAIN out.painted :
                LET g == out.painted[k].segment
                IN ~g.isBold /\ ~g.isUnderline /\ ~g.isStrike

\* a bold pair around a line-break tag: the first paragraph leaves a
\* forced-LTR marker open, the second is painted from the all-false vector
C29_Witness ==
  /\ Printed
  /\ SpanningPairs(out.text) # {}
  /\ \E k \in DOMAIN out.text : out.text[k] = "<br/>"
  /\ Len(out.paragraphs) = 2
  /\ StyleLeftBy(out.paragraphs[1].text) # NoStyle
  /\ out.paragraphs[2].firstPaint <= out.paragraphs[2].lastPaint
  /\ out.painted[out.paragraphs[1].firstPaint].segment.isLtr
  /\ ~out.painted[out.paragraphs[2].firstPaint].segment.isLtr

\* ------------------------------------------------------------------------
\* C30: when getTextWidth(text) is at most the effective maximum width and
\* print(text) follows on the unchanged surface, the surface being at
\* (fontName, normal) and the page-break callback leaving font and size
\* alone, every non-blank paragraph is painted on exactly one line, never
\* justified, and without a page break print returns startY + lineHeight *
\* (number of paragraphs).
\* ------------------------------------------------------------------------
\* print followed a probe of the same text that returned at most the maximum
ProbedToFit ==
  /\ Printed
  /\ out.probe # <<>>
  /\ out.probe[1].text = out.text
  /\ out.probe[1].ret <= config.maxWidth

OneRegularLineEach ==
  /\ \A i \in DOMAIN out.paragraphs :
        LET p == out.paragraphs[i]
        IN IF p.blank THEN p.lastLine < p.firstLine
           ELSE /\ p.lastLine = p.firstLine
                /\ out.rendered[p.firstLine].strategy = "regular"
                /\ Len(out.rendered[p.firstLine].words) >= 1
  /\ (\A k \in DOMAIN out.checks : ~out.checks[k].added) =>
        out.ret = out.options.startY + config.lineHeight * Len(out.paragraphs)

\* C30 as stated: whatever font the surface is at and whatever the callback does
C30_ProbeAgreesAlways == ProbedToFit => OneRegularLineEach

C30_ProbeAgreement ==
  (ProbedToFit /\ SurfaceAtNormal /\ CallbackKeepsFont) => OneRegularLineEach

\* a probe equal to the maximum, then two paragraphs of two words each, one
\* of them after a page break
C30_Witness ==
  /\ ProbedToFit /\ SurfaceAtNormal /\ CallbackKeepsFont
  /\ out.probe[1].ret = config.maxWidth
  /\ \E i, j \in DOMAIN out.paragraphs :
        /\ i < j
        /\ ~out.paragraphs[i].blank /\ ~out.paragraphs[j].blank
        /\ Len(out.rendered[out.paragraphs[j].firstLine].words) >= 2
  /\ \E k \in DOMAIN out.checks : out.checks[k].added

====
